---- MODULE Spec2Model ----
(***************************************************************************)
(* A model of the BRDP admin front-end: the schema-driven form engine      *)
(* (FormFieldsRenderer, FormBuilder, useControlledForm and the business    *)
(* elements of form.tsx), the HTTP hooks of useHttp.ts and the pages that  *)
(* use them.  Each part of the program has its own specification over the  *)
(* shared variables; the parts that a specification does not exercise      *)
(* stay in their idle state.                                               *)
(***************************************************************************)
EXTENDS Integers, Sequences, FiniteSets, TLC

(***************************************************************************)
(* State                                                                   *)
(***************************************************************************)
\* verifyCardNumber / validateCardNumber: the value under validation and
\* what each call returned
VARIABLES cardInput, verifyCalled, verifyResult, validateResult

cardVars == <<cardInput, verifyCalled, verifyResult, validateResult>>

\* FormFieldsRenderer of one schema field: the field's schema entry, the
\* values of the form's registered fields, the state of the field's
\* Form.useWatch (calculatedRelationResult) and the props of its last render
VARIABLES depField, formValues, calculatedRelationResult,
          itemHiddenProp, hiddenProp, disabledProp

depVars == <<depField, formValues, calculatedRelationResult,
             itemHiddenProp, hiddenProp, disabledProp>>

\* useControlledForm: the `fields` the caller passes to validateRequiredGroup
\* (name -> requiredGroup), the form store's values and errors, and how the
\* last validateRequiredGroup promise settled
VARIABLES groupFieldsArg, storeValues, fieldErrors, groupResult

groupVars == <<groupFieldsArg, storeValues, fieldErrors, groupResult>>

\* FormBuilder: its props (readOnly, disabled, autoSyncWithQueryParams,
\* initialValues), its schema, the URL's query parameters, whether it has
\* rendered, the initialValues it gave the Form (initializedWithDashIfEmpty),
\* the form store's values, and the calls the last submit or reset made
VARIABLES bProps, bFields, queryParams, bMounted, formInitialValues,
          bValues, bTrace

builderVars == <<bProps, bFields, queryParams, bMounted, formInitialValues,
                 bValues, bTrace>>

\* the ebill-files page and its useGet: where the page is in its life, the
\* page's state, the hook's cache option, the _key the unmount effect holds,
\* the data of the previous query, the query cache, the requests sent
VARIABLES phase, searchData, currentPage, cacheOption, unmountKey, lastData,
          queries, requests

getVars == <<phase, searchData, currentPage, cacheOption, unmountKey, lastData,
             queries, requests>>

\* a mutation hook: which one, the mutation's state, the payload of the
\* request in flight, whether cancel() was called during a request, and a
\* query of the cache
VARIABLES method, mutation, mutationRequest, cancelled, otherQuery

mutVars == <<method, mutation, mutationRequest, cancelled, otherQuery>>

\* IbanField and its validation rule: the field's value, whether the user
\* has filled it, and what the validator's promise settled to
VARIABLES ibanValue, ibanTyped, ibanResult

ibanVars == <<ibanValue, ibanTyped, ibanResult>>

\* an ebill-type modal: which one, whether it is shown, the values of its
\* form, the mutation's request in flight and state, the last toast, and
\* whether the ebill-type list was refetched
VARIABLES modalId, modalVisible, modalFields, modalRequest, modalMutation,
          toast, listRefetched

modalVars == <<modalId, modalVisible, modalFields, modalRequest, modalMutation,
               toast, listRefetched>>

\* useControlledForm's disabled flag: the option it starts from, the state,
\* the calls of toggleFormDisable so far, the updaters queued for the next
\* render, the disabled prop passed to ControlledForm and the disabled prop
\* ControlledForm hands to FormBuilder
VARIABLES disabledForm, isDisabled, toggleCalls, updateQueue, propsDisabled,
          formDisabled

toggleVars == <<disabledForm, isDisabled, toggleCalls, updateQueue,
                propsDisabled, formDisabled>>

\* FormFieldsRow: the fields it is given and the rows it renders
VARIABLES layoutFields, layoutRows

layoutVars == <<layoutFields, layoutRows>>

\* the auto-fill demo: the form store, useWatch's state, a render being due,
\* renders since the last input
VARIABLES afStore, afWatch, afRenderPending, afRenders

afVars == <<afStore, afWatch, afRenderPending, afRenders>>

\* CalculatorField: its value and options, the ref that feeds the modal,
\* the modal, the formulaValues it was opened with and the `formulas` entry
\* of the modal form's store
VARIABLES calcValue, calcOptions, fieldValueArray, calcModal,
          calcFormulaValues, formulas

calcVars == <<calcValue, calcOptions, fieldValueArray, calcModal,
              calcFormulaValues, formulas>>

\* SortableField: the value it was mounted with, its value prop, its options,
\* its data state and the last call of onChange
VARIABLES sortOriginal, sortValue, sortOptions, sortData, sortOnChange

sortVars == <<sortOriginal, sortValue, sortOptions, sortData, sortOnChange>>

\* file fields: which field it is with its extraProps, the displayed file,
\* the error state, the calls of onChange, the files being parsed, the
\* uploads so far
VARIABLES fileField, fileList, fileError, fileCalls, fileParsing, fileUploads

fileVars == <<fileField, fileList, fileError, fileCalls, fileParsing,
              fileUploads>>

\* the add / edit wizard of ebill types: which wizard, the modal's visibility,
\* the step index, the values saved by the earlier steps, the fetched details
\* (edit), the store of the shown step's form, the request handed to mutate
VARIABLES wizard, wizVisible, current, ebillTypeDetails, detailsData,
          stepStore, wizRequest

wizVars == <<wizard, wizVisible, current, ebillTypeDetails, detailsData,
             stepStore, wizRequest>>

vars == <<cardVars, depVars, groupVars, builderVars, getVars, mutVars,
          ibanVars, modalVars, toggleVars, layoutVars, afVars, calcVars,
          sortVars, fileVars, wizVars>>

(***************************************************************************)
(* JavaScript values.  A value is a tagged record; a string is the         *)
(* sequence of its characters, so that length, trim and regular-expression *)
(* replacement are computed character by character.                        *)
(***************************************************************************)
Undefined == [t |-> "undefined"]

Null == [t |-> "null"]

Str(s) == [t |-> "string", v |-> s]

Num(digits) == [t |-> "number", v |-> digits]

Bool(b) == [t |-> "boolean", v |-> b]

Arr(a) == [t |-> "array", v |-> a]

DigitChars == <<"0", "1", "2", "3", "4", "5", "6", "7", "8", "9">>

IsDigit(c) == \E i \in 1..Len(DigitChars) : DigitChars[i] = c

\* parseInt(c, 10) of a single decimal digit character
ParseDigit(c) == (CHOOSE i \in 1..Len(DigitChars) : DigitChars[i] = c) - 1

\* JavaScript truthiness of the values a card-number input can hold
Falsy(x) ==
    \/ x.t \in {"undefined", "null"}
    \/ x.t = "string" /\ x.v = <<>>
    \/ x.t = "number" /\ x.v = <<"0">>
    \/ x.t = "boolean" /\ x.v = FALSE

\* String(x) for a string or a number (a number is held by its decimal digits)
ToStringChars(x) == x.v

\* s.replace(/\D/g, "")
StripNonDigits(s) == SelectSeq(s, IsDigit)

(***************************************************************************)
(* Card numbers (form.tsx, "Utilities from index.ts")                      *)
(***************************************************************************)
iranianBankPrefixes ==
{
    <<"5","8","5","9","8","3">>, <<"6","2","7","3","5","3">>,
    <<"5","0","2","2","2","9">>, <<"6","3","9","3","4","7">>,
    <<"5","0","2","8","0","6">>, <<"5","0","4","7","0","6">>,
    <<"5","0","2","9","0","8">>, <<"5","8","9","2","1","0">>,
    <<"5","0","2","9","3","8">>, <<"5","8","9","4","6","3">>,
    <<"5","0","4","1","7","2">>, <<"5","0","5","7","8","5">>,
    <<"5","0","5","8","0","1">>, <<"5","8","5","9","4","7">>,
    <<"5","0","7","6","7","7">>, <<"5","8","1","8","7","4">>,
    <<"6","0","3","7","7","0">>, <<"6","3","9","2","1","7">>,
    <<"6","1","0","4","3","3">>, <<"9","9","1","9","7","5">>,
    <<"6","2","2","1","0","6">>, <<"6","2","7","8","8","4">>,
    <<"6","3","9","1","9","4">>, <<"6","2","7","4","1","2">>,
    <<"6","2","7","6","4","8">>, <<"2","0","7","1","7","7">>,
    <<"6","2","7","9","6","1">>, <<"6","0","3","7","9","9">>,
    <<"1","7","0","0","1","9">>, <<"6","2","8","0","2","3">>,
    <<"6","3","9","3","7","0">>, <<"6","3","9","6","0","7">>,
    <<"6","3","6","2","1","4">>, <<"6","3","6","9","4","9">>,
    <<"6","3","9","3","4","6">>, <<"6","3","9","5","9","9">>,
    <<"6","2","7","5","9","3">> }

invalidTestCards ==
{
    <<"4","4","4","4","3","3","3","3","2","2","2","2","1","1","1","1">>, <<"2","2","2","2","4","4","4","4","9","9","9","9","6","6","6","6">>,
    <<"4","0","0","0","0","0","0","0","0","0","0","0","0","0","0","2">>, <<"5","5","5","5","5","5","5","5","5","5","5","5","4","4","4","4">>,
    <<"4","1","1","1","1","1","1","1","1","1","1","1","1","1","1","1">>, <<"4","0","1","2","8","8","8","8","8","8","8","8","1","8","8","1">>,
    <<"3","7","8","2","8","2","2","4","6","3","1","0","0","0","5">>, <<"3","7","1","4","4","9","6","3","5","3","9","8","4","3","1">>,
    <<"4","2","2","2","2","2","2","2","2","2","2","2","2","2","2","2">>, <<"5","1","0","5","1","0","5","1","0","5","1","0","5","1","0","0">>,
    <<"6","0","1","1","1","1","1","1","1","1","1","1","1","1","1","7">> }

CardNumberLength == 16

PrefixLength == 6

\* the for loop of verifyCardNumber, from index i down to 1
RECURSIVE LuhnLoop(_, _, _, _)
LuhnLoop(digits, i, sum, shouldDouble) ==
    IF i < 1 THEN sum
    ELSE LET d == ParseDigit(digits[i])
             doubled == IF d * 2 > 9 THEN d * 2 - 9 ELSE d * 2
             digit == IF shouldDouble THEN doubled ELSE d
         IN LuhnLoop(digits, i - 1, sum + digit, ~shouldDouble)

\* the loop with the doubling started on the rightmost digit
verifyCardNumberDoubleFirst(cardNumber) ==
    IF Falsy(cardNumber) THEN FALSE
    ELSE LET digitsResult == StripNonDigits(ToStringChars(cardNumber))
         IN /\ Len(digitsResult) = CardNumberLength
            /\ digitsResult \notin invalidTestCards
            /\ SubSeq(digitsResult, 1, PrefixLength) \in iranianBankPrefixes
            /\ LuhnLoop(digitsResult, Len(digitsResult), 0, TRUE) % 10 = 0

verifyCardNumber(cardNumber) ==
    IF Falsy(cardNumber) THEN FALSE
    ELSE LET digitsResult == StripNonDigits(ToStringChars(cardNumber))
         IN IF Len(digitsResult) # CardNumberLength THEN FALSE
            ELSE IF digitsResult \in invalidTestCards THEN FALSE
            ELSE IF SubSeq(digitsResult, 1, PrefixLength) \notin iranianBankPrefixes THEN FALSE
            ELSE LuhnLoop(digitsResult, Len(digitsResult), 0, FALSE) % 10 = 0

\* the validator of validateCardNumber(errorMsg): what the promise settles to
validateCardNumber(errorMsg, cardNumber) ==
    IF Falsy(cardNumber) THEN [kind |-> "resolve", msg |-> "none"]
    ELSE IF Len(ToStringChars(cardNumber)) # CardNumberLength
         THEN [kind |-> "reject", msg |-> "invalidCardNumberLength"]
    ELSE IF ~verifyCardNumber(cardNumber)
         THEN [kind |-> "reject",
               msg |-> IF errorMsg = "undefined" THEN "invalidCardNumber" ELSE errorMsg]
    ELSE [kind |-> "resolve", msg |-> "none"]

\* ---- inputs of the card-number specification ----
TailLen == 2

CardPrefixSamples ==
    { <<"6","0","3","7","7","0">>, <<"6","2","7","3","5","3">>,
      <<"1","2","3","4","5","6">>, <<"6","0","1","1","1","1">> }

DigitSet == {DigitChars[i] : i \in 1..Len(DigitChars)}

Zeros(n) == [i \in 1..n |-> "0"]

PlainCards ==
    { p \o Zeros(CardNumberLength - PrefixLength - TailLen) \o tail :
        p \in CardPrefixSamples, tail \in [1..TailLen -> DigitSet] }

\* the ways a user types or pastes the same digits
Typed(c) ==
    { c,
      SubSeq(c, 1, 4) \o <<" ">> \o SubSeq(c, 5, 8) \o <<" ">>
          \o SubSeq(c, 9, 12) \o <<" ">> \o SubSeq(c, 13, Len(c)),
      SubSeq(c, 1, Len(c) - 1) \o <<"-">>,
      SubSeq(c, 1, Len(c) - 1),
      c \o <<"0">>,
      c \o <<"a">> }

CardInputs ==
    {Str(s) : s \in UNION {Typed(c) : c \in PlainCards}}
        \cup {Num(c) : c \in PlainCards}
        \cup {Str(c) : c \in invalidTestCards}
        \cup {Undefined, Null, Str(<<>>), Num(<<"0">>)}

CardErrorMsgs == {"undefined", "customError"}

NotSettled == [kind |-> "pending", msg |-> "none"]

CardIdle ==
    /\ cardInput = Undefined
    /\ verifyCalled = FALSE
    /\ verifyResult = FALSE
    /\ validateResult = NotSettled

CardInit ==
    /\ cardInput \in CardInputs
    /\ verifyCalled = FALSE
    /\ verifyResult = FALSE
    /\ validateResult = NotSettled

CardOthers == <<depVars, groupVars, builderVars, getVars, mutVars, ibanVars,
                modalVars, toggleVars, layoutVars, afVars, calcVars,
                sortVars, fileVars, wizVars>>

CallVerifyCardNumber ==
    /\ ~verifyCalled
    /\ verifyCalled' = TRUE
    /\ verifyResult' = verifyCardNumber(cardInput)
    /\ UNCHANGED <<cardInput, validateResult, CardOthers>>

RunCardNumberValidator ==
    /\ validateResult = NotSettled
    /\ \E errorMsg \in CardErrorMsgs :
           validateResult' = validateCardNumber(errorMsg, cardInput)
    /\ UNCHANGED <<cardInput, verifyCalled, verifyResult, CardOthers>>

CardNext == CallVerifyCardNumber \/ RunCardNumberValidator

(***************************************************************************)
(* C10: verifyCardNumber(n) is true exactly when the digits of n (every    *)
(* non-digit character removed) are 16, are not a listed test card, start  *)
(* with an Iranian bank prefix and pass the Luhn checksum (every second    *)
(* digit from the right doubled, sum divisible by 10); the validator       *)
(* resolves for an empty value (undefined, null, "" or 0), rejects with    *)
(* the length error when the raw value is not 16 characters long, and      *)
(* otherwise resolves exactly when verifyCardNumber is true.               *)
(***************************************************************************)
RawChars(x) == IF x.t \in {"string", "number"} THEN x.v ELSE <<>>

\* the checksum stated by position: the k-th digit from the right counts
\* twice (as the sum of the digits of its double) when k is even
RECURSIVE LuhnByPosition(_, _)
LuhnByPosition(d, k) ==
    IF k > Len(d) THEN 0
    ELSE LET x == ParseDigit(d[Len(d) - k + 1])
             w == IF k % 2 = 0 THEN ((2 * x) \div 10) + ((2 * x) % 10) ELSE x
         IN w + LuhnByPosition(d, k + 1)

IsValidCard(x) ==
    LET d == StripNonDigits(RawChars(x))
    IN /\ Len(d) = 16
       /\ d \notin invalidTestCards
       /\ SubSeq(d, 1, 6) \in iranianBankPrefixes
       /\ LuhnByPosition(d, 1) % 10 = 0

IsEmptyValue(x) == x \in {Undefined, Null, Str(<<>>), Num(<<"0">>)}

C10_CardNumberRule ==
    /\ verifyCalled => (verifyResult <=> IsValidCard(cardInput))
    /\ validateResult # NotSettled =>
          IF IsEmptyValue(cardInput) THEN validateResult.kind = "resolve"
          ELSE IF Len(RawChars(cardInput)) # 16
               THEN validateResult = [kind |-> "reject", msg |-> "invalidCardNumberLength"]
          ELSE (validateResult.kind = "resolve" <=> IsValidCard(cardInput))

\* a 16-digit card of an Iranian bank that passes the checksum was verified
\* and validated
C10_Witness ==
    /\ cardInput.t = "string"
    /\ Len(cardInput.v) = 16
    /\ IsValidCard(cardInput)
    /\ validateResult.kind = "resolve"

\* a formatted card (19 characters, 16 digits) that verifies but is
\* rejected for its length
C10_WitnessFormatted ==
    /\ verifyCalled /\ verifyResult
    /\ Len(RawChars(cardInput)) = 19

(***************************************************************************)
(* Dependency resolver (form.tsx, FormFieldsRenderer)                      *)
(***************************************************************************)
Rejected == Str(<<"r","e","j","e","c","t","e","d">>)

Approved == Str(<<"a","p","p","r","o","v","e","d">>)

Arash == Str(<<"a","r","a","s","h">>)

EmptyString == Str(<<>>)

\* a plain object with the given own properties
Obj(props) == [t |-> "object", v |-> props]

\* the arrow function `() => {}`: an object with no field of the form among
\* its own properties
FnObject == [t |-> "function", v |-> "noop"]

\* a hidden/disabled callback ({ values }) => values[reads] === expect
\* (negate: !==)
Callback(reads, expect, negate) ==
    [t |-> "callback", reads |-> reads, expect |-> expect, negate |-> negate]

isFunction(x) == x.t \in {"callback", "function"}

\* reading a property of undefined throws
TypeError == [t |-> "TypeError"]

\* obj[key] for what a callback can be handed: a plain object, a function
\* object (own properties `name`, "" for an anonymous arrow function, and
\* `length`, its number of parameters) or undefined
GetProp(obj, key) ==
    IF obj.t = "object"
    THEN IF key \in DOMAIN obj.v THEN obj.v[key] ELSE Undefined
    ELSE IF obj.t = "function"
    THEN IF key = "name" THEN EmptyString
         ELSE IF key = "length" THEN Num(<<"0">>)
         ELSE Undefined
    ELSE TypeError

\* cb({ values }): the comparison's result, or the error the read threw
CallCallback(cb, values) ==
    IF GetProp(values, cb.reads) = TypeError THEN TypeError
    ELSE Bool((GetProp(values, cb.reads) = cb.expect) # cb.negate)

Truthy(x) ==
    \/ x.t \in {"callback", "function", "object", "array"}
    \/ x.t = "boolean" /\ x.v
    \/ x.t = "string" /\ x.v # <<>>
    \/ x.t = "number" /\ x.v # <<"0">>

\* a || b
JsOr(a, b) == IF Truthy(a) THEN a ELSE b

\* the selector given to Form.useWatch, applied to the values of the
\* registered fields
WatchSelector(field, values) ==
    IF field.dependencies = {} THEN FnObject
    ELSE Obj([key \in (field.dependencies \cap DOMAIN values) |-> values[key]])

\* relationHandler(cb) of a render whose calculatedRelationResult is `watched`
relationHandler(cb, watched) ==
    IF isFunction(cb) THEN CallCallback(cb, watched)
    ELSE IF cb.t \in {"undefined", "null"} THEN Bool(FALSE)
    ELSE cb

\* getCommonFormItemProps(field).hidden
ItemHidden(field, watched) ==
    IF field.hidden = Undefined THEN Undefined
    ELSE relationHandler(field.hidden, watched)

\* commonInputProps.hidden and commonInputProps.disabled
InputHidden(field, watched) == relationHandler(field.hidden, watched)

InputDisabled(field, watched) ==
    IF JsOr(field.disabled, field.readOnly) = Undefined THEN Undefined
    ELSE relationHandler(JsOr(field.disabled, field.readOnly), watched)

\* what Form.useWatch can return for a selector result: the result itself,
\* and for a result that is a function also that function's return value
\* (a state setter given a function calls it as an updater; `() => {}`
\* returns undefined)
WatchState(result) ==
    IF result.t = "function" THEN {result, Undefined} ELSE {result}

\* what the watch delivers when the store changes to `values`: the selector
\* runs on the new values; a watch that is not notified keeps the result of
\* the old values
NotifyWatchStale(field, values) == {calculatedRelationResult}

NotifyWatch(field, values) == WatchState(WatchSelector(field, values))

\* ---- the form of the dependency specification ----
DepFormFields == {"status", "name", "reason"}

\* "missing" is a dependency that names no field of the form
DepKeys == {"status", "name", "missing"}

DepValuesOf(name) ==
    IF name = "status" THEN {Undefined, Rejected, Approved}
    ELSE IF name = "name" THEN {Undefined, EmptyString, Arash}
    ELSE {Undefined, EmptyString}

DepCallbacks ==
    { Callback("status", Rejected, TRUE),
      Callback("status", Approved, FALSE),
      Callback("name", EmptyString, FALSE),
      Callback("name", Arash, FALSE) }

DepFlagOptions == {Undefined, Bool(TRUE), Bool(FALSE)} \cup DepCallbacks

DepFieldSchemas ==
    [ dependencies : SUBSET DepKeys,
      hidden : DepFlagOptions,
      disabled : DepFlagOptions,
      readOnly : {Undefined, Bool(TRUE)} ]

DepIdle ==
    /\ depField = [dependencies |-> {}, hidden |-> Undefined,
                   disabled |-> Undefined, readOnly |-> Undefined]
    /\ formValues = [name \in DepFormFields |-> Undefined]
    /\ calculatedRelationResult = FnObject
    /\ itemHiddenProp = Undefined
    /\ hiddenProp = Bool(FALSE)
    /\ disabledProp = Undefined

\* the mounted field: the watch has delivered the selector's result for the
\* initial values and the field has rendered with it
DepInit ==
    /\ depField \in DepFieldSchemas
    /\ formValues = [name \in DepFormFields |-> Undefined]
    /\ calculatedRelationResult \in WatchState(WatchSelector(depField, formValues))
    /\ itemHiddenProp = ItemHidden(depField, calculatedRelationResult)
    /\ hiddenProp = InputHidden(depField, calculatedRelationResult)
    /\ disabledProp = InputDisabled(depField, calculatedRelationResult)

DepOthers == <<cardVars, groupVars, builderVars, getVars, mutVars, ibanVars,
               modalVars, toggleVars, layoutVars, afVars, calcVars, sortVars,
               fileVars, wizVars>>

\* the store changed to `values`: the watch is notified and the field
\* renders again
StoreChanged(values) ==
    /\ formValues' = values
    /\ calculatedRelationResult' \in NotifyWatch(depField, values)
    /\ itemHiddenProp' = ItemHidden(depField, calculatedRelationResult')
    /\ hiddenProp' = InputHidden(depField, calculatedRelationResult')
    /\ disabledProp' = InputDisabled(depField, calculatedRelationResult')
    /\ UNCHANGED <<depField, DepOthers>>

\* the user edits one field
UserInput ==
    \E name \in DepFormFields : \E value \in DepValuesOf(name) :
        /\ value # formValues[name]
        /\ StoreChanged([formValues EXCEPT ![name] = value])

\* form.setFieldsValue(source)
DepSetFieldsValue ==
    \E names \in SUBSET DepFormFields :
    \E source \in [DepFormFields -> UNION {DepValuesOf(n) : n \in DepFormFields}] :
        /\ Cardinality(names) >= 2
        /\ \A n \in DepFormFields : source[n] \in DepValuesOf(n)
        /\ \A n \in names : source[n] # Undefined
        /\ StoreChanged([n \in DepFormFields |->
                            IF n \in names THEN source[n] ELSE formValues[n]])

\* form.resetFields(): no initialValues were given
DepResetFields ==
    /\ formValues # [name \in DepFormFields |-> Undefined]
    /\ StoreChanged([name \in DepFormFields |-> Undefined])

DepNext == UserInput \/ DepSetFieldsValue \/ DepResetFields

\* the field has a hidden or disabled callback to hand `values` to
HasCallback(field) ==
    isFunction(field.hidden) \/ isFunction(JsOr(field.disabled, field.readOnly))

(***************************************************************************)
(* C1: the `values` handed to a field's hidden/disabled callback holds     *)
(* exactly the field's declared dependencies that exist in the form        *)
(* values, each with its current value; every other field reads as         *)
(* undefined, and a field with no dependencies sees no field value at all. *)
(***************************************************************************)
C1_ValuesAreDeclaredDependencies ==
    HasCallback(depField) =>
        \A key \in DepKeys \cup DepFormFields :
            GetProp(calculatedRelationResult, key) =
                IF key \in depField.dependencies /\ key \in DOMAIN formValues
                THEN formValues[key]
                ELSE Undefined

(***************************************************************************)
(* C2: after every change of a declared dependency (user input,            *)
(* setFieldsValue, resetFields) the field's hidden and disabled props      *)
(* equal the callback's result on the current value of the dependency.     *)
(***************************************************************************)
ReadsDeclaredField(cb) ==
    /\ isFunction(cb)
    /\ cb.reads \in depField.dependencies \cap DepFormFields

ResultNow(cb) == Bool((formValues[cb.reads] = cb.expect) # cb.negate)

C2_CallbacksFollowDependencies ==
    /\ ReadsDeclaredField(depField.hidden) =>
          /\ hiddenProp = ResultNow(depField.hidden)
          /\ itemHiddenProp = ResultNow(depField.hidden)
    /\ ReadsDeclaredField(depField.disabled) =>
          disabledProp = ResultNow(depField.disabled)

\* the guide's `reason` field after status became "rejected": shown, and
\* disabled no longer follows the initial undefined status
C2_Witness ==
    /\ depField.dependencies = {"status"}
    /\ depField.hidden = Callback("status", Rejected, TRUE)
    /\ depField.disabled = Callback("status", Approved, FALSE)
    /\ formValues["status"] = Rejected
    /\ hiddenProp = Bool(FALSE)
    /\ disabledProp = Bool(FALSE)

(***************************************************************************)
(* Required groups (form.tsx, useControlledForm)                           *)
(***************************************************************************)
Whitespace == {" "}

\* s.trim()
RECURSIVE TrimStart(_)
TrimStart(s) ==
    IF s # <<>> /\ Head(s) \in Whitespace THEN TrimStart(Tail(s)) ELSE s

RECURSIVE TrimEnd(_)
TrimEnd(s) ==
    IF s # <<>> /\ s[Len(s)] \in Whitespace
    THEN TrimEnd(SubSeq(s, 1, Len(s) - 1))
    ELSE s

Trim(s) == TrimEnd(TrimStart(s))

\* fields.filter((f) => f.requiredGroup === groupName).map((f) => f.name)
GroupFieldNames(groupName, fields) ==
    {name \in DOMAIN fields : fields[name] = groupName}

\* the `some` callback without the trim
hasAtLeastOneValueUntrimmed(fieldNames, values) ==
    \E name \in fieldNames :
        LET value == values[name]
        IN IF value = Undefined \/ value = Null THEN FALSE
           ELSE IF value.t = "string" THEN Len(value.v) > 0
           ELSE TRUE

hasAtLeastOneValue(fieldNames, values) ==
    \E name \in fieldNames :
        LET value == values[name]
        IN IF value = Undefined \/ value = Null THEN FALSE
           ELSE IF value.t = "string" THEN Len(Trim(value.v)) > 0
           ELSE TRUE

\* messages(generalMessages.requiredGroup)
RequiredGroupMessage == Str(<<"r","e","q","u","i","r","e","d","G","r","o","u","p">>)

CustomGroupMessage == Str(<<"f","i","l","l"," ","o","n","e">>)

\* ---- the form of the required-group specification ----
GroupFormFields == {"nationalId", "passport", "email"}

NoGroup == "undefined"

GroupNames == {"identity", "contact"}

GroupOptionsOf(name) ==
    IF name = "email" THEN {NoGroup, "contact"} ELSE {NoGroup, "identity"}

GroupValuesOf(name) ==
    IF name = "email" THEN {Undefined, Str(<<"a">>)}
    ELSE {Undefined, Null, Str(<<" ">>), Str(<<"a", " ">>), Bool(FALSE)}

GroupErrorMessages == {Undefined, EmptyString, CustomGroupMessage}

NoGroupResult == [groupName |-> "none", kind |-> "pending", error |-> Undefined]

GroupIdle ==
    /\ groupFieldsArg = [name \in GroupFormFields |-> NoGroup]
    /\ storeValues = [name \in GroupFormFields |-> Undefined]
    /\ fieldErrors = [name \in GroupFormFields |-> <<>>]
    /\ groupResult = NoGroupResult

GroupInit ==
    /\ groupFieldsArg \in [GroupFormFields -> {NoGroup} \cup GroupNames]
    /\ \A name \in GroupFormFields : groupFieldsArg[name] \in GroupOptionsOf(name)
    /\ storeValues = [name \in GroupFormFields |-> Undefined]
    /\ fieldErrors = [name \in GroupFormFields |-> <<>>]
    /\ groupResult = NoGroupResult

GroupOthers == <<cardVars, depVars, builderVars, getVars, mutVars, ibanVars,
                 modalVars, toggleVars, layoutVars, afVars, calcVars,
                 sortVars, fileVars, wizVars>>

\* the user edits a field (a field without rules keeps the errors set on it)
GroupInput ==
    \E name \in GroupFormFields : \E value \in GroupValuesOf(name) :
        /\ value # storeValues[name]
        /\ storeValues' = [storeValues EXCEPT ![name] = value]
        /\ UNCHANGED <<groupFieldsArg, fieldErrors, groupResult, GroupOthers>>

\* a setFields that writes the errors on every field of the form
SetErrorsEverywhere(names, errors) == [name \in GroupFormFields |-> errors]

\* form.setFields(names.map((name) => ({ name, errors })))
SetErrors(names, errors) ==
    [name \in GroupFormFields |-> IF name \in names THEN errors ELSE fieldErrors[name]]

validateRequiredGroup(groupName, errorMessage) ==
    LET fieldNames == GroupFieldNames(groupName, groupFieldsArg)
        values == [name \in fieldNames |-> storeValues[name]]
        error == JsOr(errorMessage, RequiredGroupMessage)
    IN /\ IF ~hasAtLeastOneValue(fieldNames, values)
          THEN /\ fieldErrors' = SetErrors(fieldNames, <<error>>)
               /\ groupResult' = [groupName |-> groupName, kind |-> "reject",
                                  error |-> error]
          ELSE /\ fieldErrors' = SetErrors(fieldNames, <<>>)
               /\ groupResult' = [groupName |-> groupName, kind |-> "resolve",
                                  error |-> Undefined]
       /\ UNCHANGED <<groupFieldsArg, storeValues, GroupOthers>>

CallValidateRequiredGroup ==
    \E groupName \in GroupNames : \E errorMessage \in GroupErrorMessages :
        validateRequiredGroup(groupName, errorMessage)

clearRequiredGroupErrors(groupName) ==
    /\ fieldErrors' = SetErrors(GroupFieldNames(groupName, groupFieldsArg), <<>>)
    /\ UNCHANGED <<groupFieldsArg, storeValues, groupResult, GroupOthers>>

CallClearRequiredGroupErrors ==
    \E groupName \in GroupNames : clearRequiredGroupErrors(groupName)

GroupNext ==
    GroupInput \/ CallValidateRequiredGroup \/ CallClearRequiredGroupErrors

(***************************************************************************)
(* C3: validateRequiredGroup(groupName, fields) resolves if and only if    *)
(* at least one field whose requiredGroup is groupName has a value that is *)
(* not undefined, not null and not a blank string; otherwise (a group with *)
(* no fields included) it rejects with the given or the default message.   *)
(***************************************************************************)
IsBlankString(value) ==
    /\ value.t = "string"
    /\ \A i \in 1..Len(value.v) : value.v[i] = " "

IsFilled(value) ==
    value # Undefined /\ value # Null /\ ~IsBlankString(value)

GroupIsFilled(groupName) ==
    \E name \in GroupFormFields :
        groupFieldsArg[name] = groupName /\ IsFilled(storeValues[name])

C3_RequiredGroupResolvesIffFilled ==
    [][\A groupName \in GroupNames : \A errorMessage \in GroupErrorMessages :
          validateRequiredGroup(groupName, errorMessage) =>
              IF GroupIsFilled(groupName)
              THEN groupResult'.kind = "resolve"
              ELSE /\ groupResult'.kind = "reject"
                   /\ groupResult'.error =
                          IF errorMessage \in {Undefined, EmptyString}
                          THEN RequiredGroupMessage
                          ELSE errorMessage]_vars

\* a group of two fields resolved on the strength of one filled field while
\* the other holds a blank string
C3_Witness ==
    /\ groupResult.kind = "resolve"
    /\ groupResult.groupName = "identity"
    /\ groupFieldsArg["nationalId"] = "identity"
    /\ groupFieldsArg["passport"] = "identity"
    /\ storeValues["nationalId"] = Str(<<" ">>)
    /\ storeValues["passport"] = Str(<<"a", " ">>)

\* a group without fields was rejected
C3_WitnessEmptyGroup ==
    /\ groupResult.kind = "reject"
    /\ groupResult.groupName = "contact"
    /\ groupFieldsArg["email"] = NoGroup

\* ---- C17 ----
\* the errors after an operation on groupName that writes `errors`: the
\* group's fields hold `errors`, every other field keeps what it had
OnlyGroupErrorsBecome(groupName, errors) ==
    \A name \in GroupFormFields :
        fieldErrors'[name] =
            IF groupFieldsArg[name] = groupName THEN errors
            ELSE fieldErrors[name]

\* C17: validateRequiredGroup and clearRequiredGroupErrors change no field
\* value and no error of a field outside the group: a rejecting validation
\* sets its message on exactly the fields whose requiredGroup is groupName, a
\* resolving one clears exactly those fields' errors, and
\* clearRequiredGroupErrors clears exactly those fields' errors.
C17_GroupOperationsTouchOnlyGroupErrors ==
    [][\A groupName \in GroupNames :
          /\ \A errorMessage \in GroupErrorMessages :
                validateRequiredGroup(groupName, errorMessage) =>
                    /\ storeValues' = storeValues
                    /\ groupResult'.kind \in {"reject", "resolve"}
                    /\ OnlyGroupErrorsBecome(groupName,
                           IF groupResult'.kind = "reject"
                           THEN <<groupResult'.error>> ELSE <<>>)
          /\ clearRequiredGroupErrors(groupName) =>
                /\ storeValues' = storeValues
                /\ OnlyGroupErrorsBecome(groupName, <<>>)]_vars

\* the identity group was rejected with a custom message while the field
\* outside it kept its own error and every field kept its value
C17_Witness ==
    /\ groupResult.kind = "reject"
    /\ groupResult.groupName = "identity"
    /\ groupFieldsArg["nationalId"] = "identity"
    /\ groupFieldsArg["passport"] = NoGroup
    /\ groupFieldsArg["email"] = "contact"
    /\ fieldErrors["nationalId"] = <<CustomGroupMessage>>
    /\ fieldErrors["passport"] = <<>>
    /\ fieldErrors["email"] = <<RequiredGroupMessage>>
    /\ storeValues["nationalId"] = Str(<<" ">>)
    /\ storeValues["passport"] = Str(<<"a", " ">>)

(***************************************************************************)
(* Form builder (form.tsx, FormBuilder)                                    *)
(***************************************************************************)
\* the placeholder the code puts in place of an empty read-only value
Dash == Str(<<"-">>)

\* a schema field; a business field of a collapse group carries the group's
\* fields in extraFields (options.extraProps.fields)
Field(name, flags, extraFields) ==
    [name |-> name, dependencies |-> flags.dependencies, hidden |-> flags.hidden,
     disabled |-> flags.disabled, readOnly |-> flags.readOnly,
     extraFields |-> extraFields]

NoField == [name |-> "undefined", dependencies |-> {}, hidden |-> Undefined,
            disabled |-> Undefined, readOnly |-> Undefined, extraFields |-> <<>>]

RECURSIVE fieldsList(_)
fieldsList(fields) ==
    IF fields = <<>> THEN <<>>
    ELSE <<Head(fields)>> \o fieldsList(Head(fields).extraFields)
             \o fieldsList(Tail(fields))

\* list.find((f) => f?.name === key)
RECURSIVE FindField(_, _)
FindField(list, key) ==
    IF list = <<>> THEN NoField
    ELSE IF Head(list).name = key THEN Head(list)
    ELSE FindField(Tail(list), key)

IsBlank(value) == value.t = "string" /\ Len(Trim(value.v)) = 0

RECURSIVE cleanedArray(_)
cleanedArray(data) ==
    IF data.t = "array"
    THEN Arr([i \in 1..Len(data.v) |-> cleanedArray(data.v[i])])
    ELSE IF data.t = "object"
    THEN Obj([k \in DOMAIN data.v |-> cleanedArray(data.v[k])])
    ELSE IF data = Null \/ data = Undefined \/ IsBlank(data) THEN Dash
    ELSE data

\* one entry of initialValuesResult
InitialEntry(key, value, list, readOnly) ==
    LET currentField == FindField(list, key)
        isReadOnly == Truthy(JsOr(currentField.readOnly, Bool(readOnly)))
        isEmptyArray == value.t = "array" /\ Len(value.v) = 0
        isNullish == value = Null \/ value = Undefined
    IN IF isReadOnly /\ (IsBlank(value) \/ isNullish) THEN Dash
       ELSE IF isReadOnly /\ isEmptyArray THEN Arr(<<Dash>>)
       ELSE IF value.t = "array" THEN cleanedArray(value)
       ELSE value

\* the query parameters that replace an initial value
SyncedParams(params, list, readOnly, disabled) ==
    { key \in DOMAIN params :
        LET value == params[key]
            currentField == FindField(list, key)
        IN /\ ~(IsBlank(value) \/ value = Null \/ value = Undefined)
           /\ currentField # NoField
           /\ ~Truthy(JsOr(currentField.readOnly, Bool(readOnly)))
           /\ ~Truthy(currentField.hidden)
           /\ ~Truthy(JsOr(currentField.disabled, Bool(disabled))) }

initializedWithDashIfEmpty(props, fields, getAllParams) ==
    IF ~Truthy(props.initialValues) /\ ~props.autoSyncWithQueryParams
    THEN props.initialValues
    ELSE LET list == fieldsList(fields)
             entries == IF props.initialValues.t = "object"
                        THEN props.initialValues.v ELSE <<>>
             synced == IF props.autoSyncWithQueryParams
                       THEN SyncedParams(getAllParams, list, props.readOnly,
                                         props.disabled)
                       ELSE {}
         IN Obj([key \in DOMAIN entries \cup synced |->
                    IF key \in synced THEN getAllParams[key]
                    ELSE InitialEntry(key, entries[key], list, props.readOnly)])

\* the keys handleSubmit drops (key.startsWith("__"))
IgnorableKeys == {"__confirm"}

\* handleSubmit: the values handed to onSubmit
SubmittedValues(fieldsValue) ==
    [key \in {k \in DOMAIN fieldsValue :
                 k \notin IgnorableKeys /\ fieldsValue[k] # Undefined}
        |-> fieldsValue[key]]

\* handleSubmit: the argument of updateParams
RECURSIVE FieldsParam(_, _)
FieldsParam(list, fieldsValue) ==
    IF list = <<>> THEN <<>>
    ELSE LET f == Head(list)
             rest == FieldsParam(Tail(list), fieldsValue)
         IN IF ~Truthy(f.disabled) /\ ~Truthy(f.readOnly) /\ ~Truthy(f.hidden)
            THEN [key \in DOMAIN rest \cup {f.name} |->
                     IF key \in DOMAIN rest THEN rest[key]
                     ELSE IF key \in DOMAIN fieldsValue THEN fieldsValue[key]
                     ELSE Undefined]
            ELSE rest

\* useQueryParams: the URL after updateParams(params) and removeAllParams()
UpdateParams(url, params) ==
    [key \in DOMAIN url \cup {k \in DOMAIN params : params[k] # Undefined} |->
        IF key \in DOMAIN params /\ params[key] # Undefined
        THEN params[key] ELSE url[key]]

RemoveAllParams(url) == <<>>

Call(op, arg) == [op |-> op, arg |-> arg]

\* the store of a Form mounted with the given initialValues
InitialStore(names, initial) ==
    [name \in names |->
        IF initial.t = "object" /\ name \in DOMAIN initial.v
        THEN initial.v[name] ELSE Undefined]

\* ---- the forms of the form-builder specifications ----
PlainFlags ==
    [dependencies |-> {}, hidden |-> Undefined, disabled |-> Undefined,
     readOnly |-> Undefined]

TitleA == Str(<<"a">>)

TitleFlags ==
    { PlainFlags,
      [PlainFlags EXCEPT !.readOnly = Bool(TRUE)],
      [PlainFlags EXCEPT !.disabled = Bool(TRUE)],
      [PlainFlags EXCEPT !.hidden = Bool(TRUE)] }

\* `amount` is hidden unless title is "a", or disabled when title is "a"
AmountFlags ==
    { PlainFlags,
      [PlainFlags EXCEPT !.readOnly = Bool(TRUE)],
      [PlainFlags EXCEPT !.dependencies = {"title"},
                         !.hidden = Callback("title", TitleA, TRUE)],
      [PlainFlags EXCEPT !.dependencies = {"title"},
                         !.disabled = Callback("title", TitleA, FALSE)] }

\* title, a UI-only checkbox, and a collapse group that holds amount
BuilderSchema(titleFlags, amountFlags) ==
    << Field("title", titleFlags, <<>>),
       Field("__confirm", PlainFlags, <<>>),
       Field("details", PlainFlags, <<Field("amount", amountFlags, <<>>)>>) >>

BuilderSchemas ==
    {BuilderSchema(tf, af) : tf \in TitleFlags, af \in AmountFlags}

BuilderFormFields == {"title", "__confirm", "details", "amount"}

InitialValueSamples ==
    { Undefined, Null, Str(<<" ">>), TitleA, Arr(<<>>),
      Arr(<<EmptyString, TitleA>>) }

MountInitialValues ==
    {Undefined}
        \cup {Obj([key \in {"title", "amount"} |->
                      IF key = "title" THEN v1 ELSE v2]) :
                 v1 \in InitialValueSamples, v2 \in InitialValueSamples}
        \cup {Obj([key \in {"extra"} |-> v]) : v \in InitialValueSamples}

ParamQ == Str(<<"q">>)

NoParams == <<>>

MountParams ==
    { NoParams,
      [key \in {"title"} |-> ParamQ],
      [key \in {"amount", "extra"} |-> ParamQ],
      [key \in {"title"} |-> Str(<<" ">>)] }

\* the reset prop: omitted, or false
ResetOptions == {Undefined, Bool(FALSE)}

BuilderProps(initialValuesSet) ==
    [ readOnly : BOOLEAN, disabled : BOOLEAN,
      autoSyncWithQueryParams : BOOLEAN, initialValues : initialValuesSet,
      reset : ResetOptions ]

BuilderIdle ==
    /\ bProps = [readOnly |-> FALSE, disabled |-> FALSE,
                 autoSyncWithQueryParams |-> FALSE, initialValues |-> Undefined,
                 reset |-> Undefined]
    /\ bFields = <<>>
    /\ queryParams = NoParams
    /\ bMounted = FALSE
    /\ formInitialValues = Undefined
    /\ bValues = [name \in BuilderFormFields |-> Undefined]
    /\ bTrace = <<>>

\* a FormBuilder about to render for the first time
BuilderMountInit ==
    /\ bProps \in BuilderProps(MountInitialValues)
    /\ bFields \in BuilderSchemas
    /\ queryParams \in MountParams
    /\ bMounted = FALSE
    /\ formInitialValues = Undefined
    /\ bValues = [name \in BuilderFormFields |-> Undefined]
    /\ bTrace = <<>>

\* a rendered FormBuilder
BuilderSubmitInit ==
    /\ bProps \in BuilderProps({Undefined, Obj([key \in {"title"} |-> TitleA])})
    /\ bFields \in BuilderSchemas
    /\ queryParams \in {NoParams, [key \in {"title"} |-> ParamQ]}
    /\ bMounted = TRUE
    /\ formInitialValues = initializedWithDashIfEmpty(bProps, bFields, queryParams)
    /\ bValues = InitialStore(BuilderFormFields, formInitialValues)
    /\ bTrace = <<>>

BuilderOthers == <<cardVars, depVars, groupVars, getVars, mutVars, ibanVars,
                   modalVars, toggleVars, layoutVars, afVars, calcVars,
                   sortVars, fileVars, wizVars>>

\* the first render: the memo is computed and the Form takes it as its
\* initialValues
MountFormBuilder ==
    /\ ~bMounted
    /\ bMounted' = TRUE
    /\ formInitialValues' = initializedWithDashIfEmpty(bProps, bFields, queryParams)
    /\ bValues' = InitialStore(BuilderFormFields, formInitialValues')
    /\ UNCHANGED <<bProps, bFields, queryParams, bTrace, BuilderOthers>>

BuilderMountNext == MountFormBuilder

BuilderInputsOf(name) ==
    IF name = "title" THEN {Undefined, TitleA, Str(<<"b">>)}
    ELSE IF name = "amount" THEN {Undefined, TitleA}
    ELSE IF name = "__confirm" THEN {Undefined, Bool(TRUE)}
    ELSE {Undefined}

BuilderInput ==
    \E name \in BuilderFormFields : \E value \in BuilderInputsOf(name) :
        /\ bMounted
        /\ value # bValues[name]
        /\ bValues' = [bValues EXCEPT ![name] = value]
        /\ UNCHANGED <<bProps, bFields, queryParams, bMounted, formInitialValues,
                       bTrace, BuilderOthers>>

\* the condition, were disabled not looked at
SyncsParamsWhenDisabled(props) ==
    props.autoSyncWithQueryParams /\ ~props.readOnly

\* autoSyncWithQueryParams && !disabled && !readOnly
SyncsParams(props) ==
    props.autoSyncWithQueryParams /\ ~props.disabled /\ ~props.readOnly

\* the Form's onFinish
handleSubmit ==
    LET fieldsValue == SubmittedValues(bValues)
        fieldsParam == FieldsParam(fieldsList(bFields), fieldsValue)
    IN /\ bMounted
       /\ IF SyncsParams(bProps)
          THEN /\ queryParams' = UpdateParams(queryParams, fieldsParam)
               /\ bTrace' = <<Call("updateParams", fieldsParam),
                              Call("onSubmit", fieldsValue)>>
          ELSE /\ queryParams' = queryParams
               /\ bTrace' = <<Call("onSubmit", fieldsValue)>>
       /\ formInitialValues' = initializedWithDashIfEmpty(bProps, bFields, queryParams')
       /\ UNCHANGED <<bProps, bFields, bMounted, bValues, BuilderOthers>>

\* reset !== false && !readOnly
ResetButtonExists(props) == props.reset # Bool(FALSE) /\ ~props.readOnly

\* the reset button: its onClick, then the form's reset (resetFields)
ResetClick ==
    /\ bMounted
    /\ ResetButtonExists(bProps)
    /\ IF SyncsParams(bProps)
       THEN /\ queryParams' = RemoveAllParams(queryParams)
            /\ bTrace' = <<Call("removeAllParams", <<>>), Call("onReset", <<>>)>>
       ELSE /\ queryParams' = queryParams
            /\ bTrace' = <<Call("onReset", <<>>)>>
    /\ formInitialValues' = initializedWithDashIfEmpty(bProps, bFields, queryParams')
    /\ bValues' = InitialStore(BuilderFormFields, formInitialValues')
    /\ UNCHANGED <<bProps, bFields, bMounted, BuilderOthers>>

BuilderSubmitNext == BuilderInput \/ handleSubmit \/ ResetClick

\* ---- C4 ----
\* the placeholder of the usage guide, the em dash (U+2014); the hyphen-minus
\* of Dash is U+002D
EmDash == Str(<<"U+2014">>)

\* readOnly on the form, or on the field of that name wherever it is nested
RECURSIVE HasReadOnlyField(_, _)
HasReadOnlyField(fields, key) ==
    \E i \in 1..Len(fields) :
        \/ fields[i].name = key /\ fields[i].readOnly = Bool(TRUE)
        \/ HasReadOnlyField(fields[i].extraFields, key)

IsReadOnlyEntry(key) == bProps.readOnly \/ HasReadOnlyField(bFields, key)

IsEmptyEntry(value) ==
    \/ value \in {Null, Undefined}
    \/ value.t = "string" /\ \A i \in 1..Len(value.v) : value.v[i] \in Whitespace

ShownWithPlaceholder(placeholder) ==
    (bMounted /\ bProps.initialValues.t = "object") =>
        \A key \in DOMAIN bProps.initialValues.v :
            LET value == bProps.initialValues.v[key]
                shown == formInitialValues.v[key]
            IN IsReadOnlyEntry(key) =>
                  /\ IsEmptyEntry(value) => shown = placeholder
                  /\ value = Arr(<<>>) => shown = Arr(<<placeholder>>)
                  /\ (~IsEmptyEntry(value) /\ value.t # "array") => shown = value

\* C4: in read-only mode (readOnly on the form or on the field, nested
\* fields included) an empty entry of initialValues (null, undefined, blank
\* string) is shown as the placeholder "—" (em dash), an empty array as a
\* one-element array holding that placeholder, and a non-empty scalar
\* unchanged.
C4_ReadOnlyShowsEmDash == ShownWithPlaceholder(EmDash)

\* the same statement about the hyphen-minus
C4_ReadOnlyShowsHyphen == ShownWithPlaceholder(Dash)

\* a read-only nested field with an empty initial value has been rendered
C4_Witness ==
    /\ bMounted
    /\ ~bProps.readOnly
    /\ HasReadOnlyField(bFields, "amount")
    /\ bProps.initialValues.t = "object"
    /\ "amount" \in DOMAIN bProps.initialValues.v
    /\ bProps.initialValues.v["amount"] = Null
    /\ formInitialValues.v["amount"] = Dash

\* ---- C5 ----
\* the value of a flag of a field at this moment: a callback is called with
\* the current values of the field's dependencies
FlagNow(flag, field) ==
    IF flag.t = "callback"
    THEN (bValues[flag.reads] = flag.expect) # flag.negate
    ELSE flag = Bool(TRUE)

EditableNow(field) ==
    /\ ~FlagNow(field.disabled, field)
    /\ ~FlagNow(field.readOnly, field)
    /\ ~FlagNow(field.hidden, field)

\* the values a submit hands over: those that are set and not UI-only
EnteredValues ==
    [key \in {k \in BuilderFormFields :
                 k # "__confirm" /\ bValues[k] # Undefined} |-> bValues[key]]

SyncIsOn ==
    bProps.autoSyncWithQueryParams /\ ~bProps.disabled /\ ~bProps.readOnly

SubmitSyncsEditableFields ==
    LET list == fieldsList(bFields)
    IN IF SyncIsOn
       THEN /\ Len(bTrace') = 2
            /\ bTrace'[1].op = "updateParams"
            /\ bTrace'[2] = Call("onSubmit", EnteredValues)
            /\ \A i \in 1..Len(list) :
                  (EditableNow(list[i]) /\ list[i].name \in DOMAIN EnteredValues)
                      => /\ list[i].name \in DOMAIN bTrace'[1].arg
                         /\ bTrace'[1].arg[list[i].name] = EnteredValues[list[i].name]
       ELSE /\ queryParams' = queryParams
            /\ bTrace' = <<Call("onSubmit", EnteredValues)>>

\* C5: a submit of a form with autoSyncWithQueryParams that is neither
\* disabled nor readOnly updates the query parameters with the submitted
\* value of every field that is editable at that moment (not disabled, not
\* read-only, not hidden) before it calls onSubmit; otherwise the submit
\* leaves the query parameters unchanged and still calls onSubmit.
C5_SubmitSyncsEditableFields ==
    [][handleSubmit => SubmitSyncsEditableFields]_vars

\* the same statement for the fields whose flags are no callbacks
C5_SubmitSyncsStaticFields ==
    [][(handleSubmit /\ \A i \in 1..Len(fieldsList(bFields)) :
            /\ ~isFunction(fieldsList(bFields)[i].hidden)
            /\ ~isFunction(fieldsList(bFields)[i].disabled))
        => SubmitSyncsEditableFields]_vars

\* a submit has left out the visible, filled `amount` whose hidden is a callback
C5_Witness ==
    /\ SyncIsOn
    /\ Len(bTrace) = 2
    /\ bTrace[1].op = "updateParams"
    /\ bValues["title"] = TitleA
    /\ bValues["amount"] = TitleA
    /\ "amount" \in DOMAIN bTrace[2].arg
    /\ "amount" \notin DOMAIN bTrace[1].arg

\* ---- C18 ----
\* the keys whose query parameter replaces the initial value: the value is
\* not empty, a field of that name exists at the top level or nested, and it
\* is editable, by itself and through the form
ReplacingParams ==
    LET list == fieldsList(bFields)
    IN { key \in DOMAIN queryParams :
           /\ ~IsEmptyEntry(queryParams[key])
           /\ ~bProps.disabled
           /\ ~bProps.readOnly
           /\ \E i \in 1..Len(list) :
                 list[i].name = key /\ EditableNow(list[i]) }

InitialValuesFollowParams ==
    (bMounted /\ bProps.autoSyncWithQueryParams) =>
        LET entries == IF bProps.initialValues.t = "object"
                       THEN bProps.initialValues.v ELSE <<>>
        IN /\ formInitialValues.t = "object"
           /\ DOMAIN formInitialValues.v = DOMAIN entries \cup ReplacingParams
           /\ \A key \in DOMAIN formInitialValues.v :
                 formInitialValues.v[key] =
                     IF key \in ReplacingParams THEN queryParams[key]
                     ELSE InitialEntry(key, entries[key], fieldsList(bFields),
                                       bProps.readOnly)

\* C18: with autoSyncWithQueryParams a query parameter replaces the initial
\* value of its key exactly when its value is not empty, a field of that name
\* exists (top level or nested in a collapse group) and that field is not
\* hidden, not disabled and not read-only, by itself or through the form;
\* every other key has the value derived from initialValues.
C18_ParamsReplaceInitialValues == InitialValuesFollowParams

\* the same statement for the schemas whose flags are no callbacks
C18_ParamsReplaceStaticFields ==
    (\A i \in 1..Len(fieldsList(bFields)) :
        /\ ~isFunction(fieldsList(bFields)[i].hidden)
        /\ ~isFunction(fieldsList(bFields)[i].disabled))
    => InitialValuesFollowParams

\* the parameter of the visible `amount`, whose hidden is a callback, was
\* not taken
C18_Witness ==
    /\ bMounted
    /\ bProps.autoSyncWithQueryParams
    /\ ~bProps.disabled
    /\ ~bProps.readOnly
    /\ "amount" \in DOMAIN queryParams
    /\ \E i \in 1..Len(fieldsList(bFields)) :
          /\ fieldsList(bFields)[i].name = "amount"
          /\ isFunction(fieldsList(bFields)[i].hidden)
          /\ EditableNow(fieldsList(bFields)[i])
    /\ bValues["title"] = TitleA
    /\ formInitialValues.v["amount"] # queryParams["amount"]

(***************************************************************************)
(* HTTP data hooks (useHttp.ts) and the ebill-files page that hosts useGet *)
(* (EbillFilesManagement.tsx).  The query cache is the library's: a query  *)
(* per key with a status, a fetch status, data and an error.               *)
(***************************************************************************)
IsPrefix(prefix, queryKey) ==
    /\ Len(prefix) <= Len(queryKey)
    /\ \A i \in 1..Len(prefix) : prefix[i] = queryKey[i]

\* a query filter { queryKey, exact } matches a key
Matches(filter, queryKey) ==
    IF filter.exact THEN filter.queryKey = queryKey
    ELSE IsPrefix(filter.queryKey, queryKey)

AbsentQuery ==
    [status |-> "absent", fetchStatus |-> "idle", data |-> Undefined, error |-> Null]

\* the cache builds the query a hook asks for
Build(query) ==
    IF query.status = "absent" THEN [AbsentQuery EXCEPT !.status = "pending"]
    ELSE query

\* the query function is called (again)
Fetch(query) == [Build(query) EXCEPT !.fetchStatus = "fetching"]

\* a fetch whose abort signal the query function took is aborted and the
\* query goes back to the state before the fetch
Revert(query) == [query EXCEPT !.fetchStatus = "idle"]

cancelQueries(cache, filter) ==
    [k \in DOMAIN cache |->
        IF Matches(filter, k) THEN Revert(cache[k]) ELSE cache[k]]

removeQueries(cache, filter) ==
    [k \in DOMAIN cache |->
        IF Matches(filter, k) THEN AbsentQuery ELSE cache[k]]

\* a failed request: an error with the server's response, or without one
ErrorBody == Obj([rsCode |-> Str(<<"5", "0", "0">>)])

StatusFailure ==
    [response |-> [data |-> ErrorBody], message |-> Str(<<"Request failed">>)]

NetworkFailure ==
    [response |-> Undefined, message |-> Str(<<"Network Error">>)]

Failures == {StatusFailure, NetworkFailure}

\* error.response?.data
ResponseData(failure) ==
    IF failure.response = Undefined THEN Undefined ELSE failure.response.data

\* what the mutation hooks throw: error.response?.data || error.message
mutationFnThrown(failure) == JsOr(ResponseData(failure), failure.message)

\* what useGet's queryFn throws: error.response?.data
queryFnThrown(failure) == ResponseData(failure)

\* useQuery's enabled, always on
enabledAlways(options) == TRUE

\* (options && options.enable) === false ? false : true
enabled(options) == ~(options # Undefined /\ options.enable = Bool(FALSE))

\* _key = [...key, url]
QueryKeyOf(key, url) == key \o <<url>>

\* the response body of a successful request
ResponseOf(url) == [t |-> "response", resultData |-> url]

\* ---- the ebill-files page ----
MaxPage == 3

Pages == 1..MaxPage

NoSearch == Undefined

\* the values of a search submit
SearchA == Obj([billNumber |-> Str(<<"1">>)])

SearchValues == {SearchA}

\* Services.ExternalServices.GET_EBILL_FILES({ pageNumber, ...searchData })
GET_EBILL_FILES(pageNumber, search) ==
    [t |-> "url", pageNumber |-> pageNumber, search |-> search]

\* ["ebill-files-management", currentPage]
PageKey(page) ==
    << [t |-> "string", v |-> "ebill-files-management"], [t |-> "number", v |-> page] >>

\* { enable: !!searchData, hasPagination: true } and the cache option
PageOptions(search, cache) ==
    [enable |-> Bool(Truthy(search)), hasPagination |-> TRUE, cache |-> cache]

PageQueryKey(page, search) == QueryKeyOf(PageKey(page), GET_EBILL_FILES(page, search))

PageQueryKeys ==
    {PageQueryKey(p, s) : p \in Pages, s \in {NoSearch} \cup SearchValues}

UrlOf(queryKey) == queryKey[Len(queryKey)]

currentKey == PageQueryKey(currentPage, searchData)

\* the observer of useQuery takes up the query of `queryKey`
Subscribe(cache, queryKey, options) ==
    [cache EXCEPT ![queryKey] = IF enabled(options) THEN Fetch(@) ELSE Build(@)]

\* the requests that taking up the query sends
SubscribeRequests(cache, queryKey, options) ==
    IF enabled(options) /\ cache[queryKey].fetchStatus # "fetching"
    THEN {UrlOf(queryKey)} ELSE {}

\* the observer leaves the query: its fetch is aborted
Unsubscribe(cache, queryKey) == [cache EXCEPT ![queryKey] = Revert(@)]

\* the hook's data: the query's, or with hasPagination the previous query's
\* while the query is pending (keepPreviousData)
HookData ==
    LET query == queries[currentKey]
    IN IF phase # "mounted" THEN Undefined
       ELSE IF query.data # Undefined THEN query.data
       ELSE IF query.status = "pending" THEN lastData
       ELSE Undefined

isFetching == phase = "mounted" /\ queries[currentKey].fetchStatus = "fetching"

\* the table's data (convertedData || []) and loading (isFetching)
TableData == IF HookData = Undefined THEN <<>> ELSE <<HookData.resultData>>

TableLoading == isFetching

GetIdle ==
    /\ phase = "unloaded"
    /\ searchData = NoSearch
    /\ currentPage = 1
    /\ cacheOption = FALSE
    /\ unmountKey = <<>>
    /\ lastData = Undefined
    /\ queries = [k \in PageQueryKeys |-> AbsentQuery]
    /\ requests = {}

GetInit ==
    /\ phase = "unloaded"
    /\ searchData = NoSearch
    /\ currentPage = 1
    /\ cacheOption \in BOOLEAN
    /\ unmountKey = <<>>
    /\ lastData = Undefined
    /\ queries = [k \in PageQueryKeys |-> AbsentQuery]
    /\ requests = {}

GetOthers == <<cardVars, depVars, groupVars, builderVars, mutVars, ibanVars,
               modalVars, toggleVars, layoutVars, afVars, calcVars, sortVars,
               fileVars, wizVars>>

\* the page renders for the first time: the unmount effect keeps this
\* render's _key and options, useQuery takes up the query
PageLoad ==
    LET options == PageOptions(searchData, cacheOption)
    IN /\ phase = "unloaded"
       /\ phase' = "mounted"
       /\ unmountKey' = currentKey
       /\ queries' = Subscribe(queries, currentKey, options)
       /\ requests' = requests \cup SubscribeRequests(queries, currentKey, options)
       /\ UNCHANGED <<searchData, currentPage, cacheOption, lastData, GetOthers>>

\* the render after searchData or currentPage changed
Rerender(cache, sent, page, search) ==
    LET newKey == PageQueryKey(page, search)
        options == PageOptions(search, cacheOption)
        left == Unsubscribe(cache, currentKey)
    IN IF newKey = currentKey
       THEN /\ queries' = cache
            /\ requests' = sent
            /\ lastData' = lastData
       ELSE /\ queries' = Subscribe(left, newKey, options)
            /\ requests' = sent \cup SubscribeRequests(left, newKey, options)
            /\ lastData' = IF cache[currentKey].data # Undefined
                           THEN cache[currentKey].data ELSE lastData

\* handleSearch: setSearchData(values); mutate(); resetPage(); mutate is
\* the refetch of the render that created the handler
handleSearch ==
    \E values \in SearchValues :
        /\ phase = "mounted"
        /\ searchData' = values
        /\ currentPage' = 1
        /\ Rerender([queries EXCEPT ![currentKey] = Fetch(@)],
                    requests \cup {UrlOf(currentKey)}, 1, values)
        /\ UNCHANGED <<phase, cacheOption, unmountKey, GetOthers>>

\* the table's pagination, offered when there are rows
onPageChange ==
    \E page \in Pages :
        /\ phase = "mounted"
        /\ HookData # Undefined
        /\ page # currentPage
        /\ currentPage' = page
        /\ Rerender(queries, requests, page, searchData)
        /\ UNCHANGED <<phase, searchData, cacheOption, unmountKey, GetOthers>>

\* a request in flight succeeds
GetSucceeds ==
    \E k \in PageQueryKeys :
        /\ queries[k].fetchStatus = "fetching"
        /\ queries' = [queries EXCEPT ![k] =
                          [status |-> "success", fetchStatus |-> "idle",
                           data |-> ResponseOf(UrlOf(k)), error |-> Null]]
        /\ UNCHANGED <<phase, searchData, currentPage, cacheOption, unmountKey,
                       lastData, requests, GetOthers>>

\* a request in flight fails with `failure`: queryFn throws
GetFails(failure) ==
    \E k \in PageQueryKeys :
        /\ queries[k].fetchStatus = "fetching"
        /\ queries' = [queries EXCEPT ![k] =
                          [@ EXCEPT !.status = "error", !.fetchStatus = "idle",
                                    !.error = queryFnThrown(failure)]]
        /\ UNCHANGED <<phase, searchData, currentPage, cacheOption, unmountKey,
                       lastData, requests, GetOthers>>

GetFailsSomehow == \E failure \in Failures : GetFails(failure)

\* useGet's cancel: queryClient.cancelQueries({ queryKey: [...key] })
GetCancel ==
    /\ phase = "mounted"
    /\ queries' = cancelQueries(queries, [queryKey |-> PageKey(currentPage),
                                          exact |-> FALSE])
    /\ UNCHANGED <<phase, searchData, currentPage, cacheOption, unmountKey,
                   lastData, requests, GetOthers>>

\* the page unmounts: the effect's cleanup of the first render runs
\* (if (!options?.cache) removeQueries({ queryKey: _key })), the observer
\* leaves its query
Unmount ==
    LET left == Unsubscribe(queries, currentKey)
    IN /\ phase = "mounted"
       /\ phase' = "unmounted"
       /\ queries' = IF cacheOption THEN left
                     ELSE removeQueries(left, [queryKey |-> unmountKey,
                                               exact |-> FALSE])
       /\ UNCHANGED <<searchData, currentPage, cacheOption, unmountKey,
                      lastData, requests, GetOthers>>

GetNext ==
    \/ PageLoad
    \/ handleSearch
    \/ onPageChange
    \/ GetSucceeds
    \/ GetFailsSomehow
    \/ GetCancel
    \/ Unmount

C7_UnmountLeavesNoData ==
    [][Unmount =>
          IF cacheOption
          THEN \A k \in PageQueryKeys : queries'[k].data = queries[k].data
          ELSE \A k \in PageQueryKeys : queries'[k].data = Undefined]_vars

\* the same statement for a hook whose key and URL never changed
C7_UnmountRemovesFirstKey ==
    [][Unmount =>
          IF cacheOption
          THEN \A k \in PageQueryKeys : queries'[k].data = queries[k].data
          ELSE queries'[unmountKey].data = Undefined]_vars

\* the page was left after a search and its rows are still cached
C7_Witness ==
    /\ phase = "unmounted"
    /\ ~cacheOption
    /\ searchData = SearchA
    /\ queries[currentKey].data = ResponseOf(UrlOf(currentKey))

\* ---- C8 ----
\* the error the claim expects of every hook
ExpectedError(failure) ==
    IF failure.response # Undefined THEN failure.response.data
    ELSE failure.message

\* C8: every HTTP hook reports, for a failed request, the server's response
\* body when the failure carries one and the failure's message otherwise,
\* and never an undefined error; here for useGet.
C8_GetErrorIsBodyOrMessage ==
    [][\A failure \in Failures :
          GetFails(failure) =>
              \A k \in PageQueryKeys :
                  queries'[k] # queries[k] =>
                      /\ queries'[k].error = ExpectedError(failure)
                      /\ queries'[k].error # Undefined]_vars

\* useGet has reported an undefined error
C8_Witness ==
    /\ phase = "mounted"
    /\ queries[currentKey].status = "error"
    /\ queries[currentKey].error = Undefined

\* useGet's cancel aborts the request of the hook
GetCancelAborts ==
    [][GetCancel => ~isFetching']_vars

\* ---- C25 ----
\* C25: on the ebill-files page every request sent as the result of a search
\* submit carries that submit's filters and page 1: handleSearch never causes
\* a request with the previous filters, with no filters, or with the
\* previous page.
C25_SearchRequestsCarryTheSubmit ==
    [][handleSearch =>
          \A url \in requests' \ requests :
              /\ url.search = searchData'
              /\ url.pageNumber = 1]_vars

\* the request of the submit itself, filters and page 1, is among those sent
C25_SearchSendsTheSubmit ==
    [][handleSearch => GET_EBILL_FILES(1, searchData') \in requests']_vars

\* after the first search submit a request without filters has been sent
C25_Witness ==
    /\ searchData = SearchA
    /\ GET_EBILL_FILES(1, NoSearch) \in requests

(***************************************************************************)
(* The mutation hooks: usePost, usePut, usePatch, useDelete                *)
(***************************************************************************)
Methods == {"POST", "PUT", "PATCH", "DELETE"}

\* the url the mutation hook was given, and the url and key of a useGet
\* elsewhere on the page
MutationUrl == [t |-> "url", v |-> "GET_EBILL_TYPES/add"]

ListUrl == [t |-> "url", v |-> "GET_EBILL_TYPES"]

ListName == [t |-> "string", v |-> "ebill-types"]

\* the keys a query of the page can have: a useGet's [...key, url]
OtherQueryKeys ==
    { QueryKeyOf(<<ListName>>, ListUrl),
      QueryKeyOf(<<MutationUrl>>, ListUrl),
      QueryKeyOf(<<>>, MutationUrl) }

Payloads == {Str(<<"x">>), Str(<<"y">>)}

NoRequest == Undefined

IdleMutation == [status |-> "idle", data |-> Undefined, error |-> Null]

\* the filter of the hook's cancel: { queryKey: [url] }, for useDelete with
\* exact: true
CancelFilter(hook) == [queryKey |-> <<MutationUrl>>, exact |-> hook = "DELETE"]

MutIdle ==
    /\ method = "POST"
    /\ mutation = IdleMutation
    /\ mutationRequest = NoRequest
    /\ cancelled = FALSE
    /\ otherQuery = [queryKey |-> QueryKeyOf(<<ListName>>, ListUrl),
                     query |-> AbsentQuery]

MutInit ==
    /\ method \in Methods
    /\ mutation = IdleMutation
    /\ mutationRequest = NoRequest
    /\ cancelled = FALSE
    /\ otherQuery \in [queryKey : OtherQueryKeys, query : {Build(AbsentQuery)}]

MutOthers == <<cardVars, depVars, groupVars, builderVars, getVars, ibanVars,
               modalVars, toggleVars, layoutVars, afVars, calcVars, sortVars,
               fileVars, wizVars>>

\* mutate(data): mutationFn sends the request
MutationMutate ==
    \E payload \in Payloads :
        /\ mutationRequest = NoRequest
        /\ mutationRequest' = payload
        /\ mutation' = [status |-> "pending", data |-> Undefined, error |-> Null]
        /\ cancelled' = FALSE
        /\ UNCHANGED <<method, otherQuery, MutOthers>>

\* cancel(): queryClient.cancelQueries(filter), which goes through the
\* queries of the cache
MutationCancel ==
    /\ cancelled' = (cancelled \/ mutationRequest # NoRequest)
    /\ otherQuery' =
          [otherQuery EXCEPT !.query =
              IF Matches(CancelFilter(method), otherQuery.queryKey)
              THEN Revert(@) ELSE @]
    /\ UNCHANGED <<method, mutation, mutationRequest, MutOthers>>

\* the request in flight succeeds
MutationSucceeds ==
    /\ mutationRequest # NoRequest
    /\ mutationRequest' = NoRequest
    /\ mutation' = [status |-> "success", data |-> ResponseOf(mutationRequest),
                    error |-> Null]
    /\ UNCHANGED <<method, cancelled, otherQuery, MutOthers>>

\* the request in flight fails with `failure`: mutationFn throws
MutationFails(failure) ==
    /\ mutationRequest # NoRequest
    /\ mutationRequest' = NoRequest
    /\ mutation' = [status |-> "error", data |-> Undefined,
                    error |-> mutationFnThrown(failure)]
    /\ UNCHANGED <<method, cancelled, otherQuery, MutOthers>>

MutationFailsSomehow == \E failure \in Failures : MutationFails(failure)

\* the useGet elsewhere on the page refetches, and its request settles
OtherQueryFetch ==
    /\ otherQuery.query.fetchStatus = "idle"
    /\ otherQuery' = [otherQuery EXCEPT !.query = Fetch(@)]
    /\ UNCHANGED <<method, mutation, mutationRequest, cancelled, MutOthers>>

OtherQuerySettles ==
    /\ otherQuery.query.fetchStatus = "fetching"
    /\ otherQuery' = [otherQuery EXCEPT !.query =
                         [status |-> "success", fetchStatus |-> "idle",
                          data |-> ResponseOf(UrlOf(otherQuery.queryKey)),
                          error |-> Null]]
    /\ UNCHANGED <<method, mutation, mutationRequest, cancelled, MutOthers>>

MutNext ==
    \/ MutationMutate
    \/ MutationCancel
    \/ MutationSucceeds
    \/ MutationFailsSomehow
    \/ OtherQueryFetch
    \/ OtherQuerySettles

\* ---- C9 ----
\* C9: cancel() called while the hook's request is in flight cancels it:
\* the request is aborted and its response is never delivered as the
\* hook's data; here for the mutation hooks (POST, PUT, PATCH, DELETE).
C9_MutationCancelAborts ==
    cancelled => (mutationRequest = NoRequest /\ mutation.status # "success")

\* the response of a cancelled POST was delivered
C9_Witness ==
    /\ cancelled
    /\ method = "POST"
    /\ mutation.status = "success"
    /\ mutation.data = ResponseOf(Str(<<"x">>))

\* the mutation hooks report the body, or else the message
MutationErrorIsBodyOrMessage ==
    [][\A failure \in Failures :
          MutationFails(failure) =>
              /\ mutation'.error = ExpectedError(failure)
              /\ mutation'.error # Undefined]_vars

(***************************************************************************)
(* IBAN (form.tsx, IbanField and ibanNumberValidationRules)                *)
(***************************************************************************)
\* what parseInt gives for a string without digits at its start
NaN == [nan |-> TRUE, n |-> 0]

RECURSIVE LeadingDigits(_)
LeadingDigits(s) ==
    IF s = <<>> \/ ~IsDigit(Head(s)) THEN <<>>
    ELSE <<Head(s)>> \o LeadingDigits(Tail(s))

RECURSIVE DigitsValue(_)
DigitsValue(digits) ==
    IF digits = <<>> THEN 0
    ELSE 10 * DigitsValue(SubSeq(digits, 1, Len(digits) - 1))
            + ParseDigit(digits[Len(digits)])

\* parseInt(s, 10) of a string without sign or leading blanks
parseInt(s) ==
    IF LeadingDigits(s) = <<>> THEN NaN
    ELSE [nan |-> FALSE, n |-> DigitsValue(LeadingDigits(s))]

\* String(n) of 0 <= n < 100
NumberChars(n) ==
    IF n < 10 THEN <<DigitChars[n + 1]>>
    ELSE <<DigitChars[(n \div 10) + 1], DigitChars[(n % 10) + 1]>>

\* String(parseInt(block, 10) % 97)
Mod97Chars(block) ==
    IF parseInt(block).nan THEN <<"N", "a", "N">>
    ELSE NumberChars(parseInt(block).n % 97)

BlockLength == 9

\* one turn of the while loop: the next `remainder`
Mod97Step(remainder) ==
    LET block == SubSeq(remainder, 1,
                        IF Len(remainder) < BlockLength THEN Len(remainder)
                        ELSE BlockLength)
    IN Mod97Chars(block) \o SubSeq(remainder, Len(block) + 1, Len(remainder))

\* the while loop: the `remainder` it ends with, or "loops" when a turn
\* leaves a remainder longer than 2 as it is and the loop never ends
RECURSIVE Mod97Loop(_)
Mod97Loop(remainder) ==
    IF Len(remainder) <= 2 THEN remainder
    ELSE IF Mod97Step(remainder) = remainder THEN <<"loops">>
    ELSE Mod97Loop(Mod97Step(remainder))

\* true, false, or "loops" when the call never returns
ibanISO7064Mod97Validator(iban) ==
    LET remainder == Mod97Loop(iban)
    IN IF remainder = <<"loops">> THEN "loops"
       ELSE IF ~parseInt(remainder).nan /\ parseInt(remainder).n % 97 = 1
       THEN "true" ELSE "false"

UpperChar(c) == IF c = "i" THEN "I" ELSE IF c = "r" THEN "R" ELSE c

\* s.toUpperCase() of a string of digits, blanks and the letters i, r
toUpperCase(s) == [i \in 1..Len(s) |-> UpperChar(s[i])]

startsWithIR(s) == Len(s) >= 2 /\ s[1] = "I" /\ s[2] = "R"

\* the validator of ibanNumberValidationRules: what the promise settles to,
\* or "hang" when the validator never returns
ibanValidator(value) ==
    IF Falsy(value) THEN [kind |-> "resolve", msg |-> "none"]
    ELSE LET iban == IF startsWithIR(toUpperCase(value.v))
                     THEN toUpperCase(value.v)
                     ELSE toUpperCase(<<"I", "R">> \o value.v)
             check == ibanISO7064Mod97Validator(iban)
         IN IF Len(value.v) # 24 /\ Len(value.v) # 26
            THEN [kind |-> "reject", msg |-> "ibanLengthValidation"]
            ELSE IF check = "loops" THEN [kind |-> "hang", msg |-> "none"]
            ELSE IF check = "false" THEN [kind |-> "reject", msg |-> "invalidIban"]
            ELSE [kind |-> "resolve", msg |-> "none"]

\* IbanField.handleChange: the value handed to onChange
ibanHandleChange(rawInput, addIR) ==
    LET digitsOnly == StripNonDigits(rawInput)
    IN IF addIR /\ Len(digitsOnly) > 0 THEN <<"I", "R">> \o digitsOnly
       ELSE digitsOnly

\* ---- inputs of the IBAN specification ----
IbanTailLen == 2

\* the check digits and the account number of IR06 2960 0000 0010 0324 2000 01
\* without its last digits
IbanBase ==
    <<"0","6","2","9","6","0","0","0","0","0","0","0","1","0","0","3","2","4",
      "2","0","0","0">>

IbanDigits ==
    {SubSeq(IbanBase, 1, 24 - IbanTailLen) \o tail :
        tail \in [1..IbanTailLen -> DigitSet]}

\* the ways a user types or pastes the digits
IbanTyped(d) ==
    { d,
      SubSeq(d, 1, 4) \o <<" ">> \o SubSeq(d, 5, Len(d)),
      <<"I", "R">> \o d,
      SubSeq(d, 1, Len(d) - 1),
      SubSeq(d, 1, Len(d) - 2),
      d \o <<"0", "0">> }

IbanRawInputs == UNION {IbanTyped(d) : d \in IbanDigits} \cup {<<>>, <<"I", "R">>}

\* the values the field starts with
IbanInitialValues == {Undefined, Null, Str(<<>>), Str(<<"i", "r">> \o IbanBase \o <<"0", "1">>)}

IbanIdle ==
    /\ ibanValue = Undefined
    /\ ibanTyped = FALSE
    /\ ibanResult = NotSettled

IbanInit ==
    /\ ibanValue \in IbanInitialValues
    /\ ibanTyped = FALSE
    /\ ibanResult = NotSettled

IbanOthers == <<cardVars, depVars, groupVars, builderVars, getVars, mutVars,
                modalVars, toggleVars, layoutVars, afVars, calcVars,
                sortVars, fileVars, wizVars>>

\* the user fills the field
IbanFieldChange ==
    \E rawInput \in IbanRawInputs : \E addIR \in BOOLEAN :
        /\ ~ibanTyped
        /\ ibanTyped' = TRUE
        /\ ibanValue' = Str(ibanHandleChange(rawInput, addIR))
        /\ ibanResult' = NotSettled
        /\ UNCHANGED IbanOthers

RunIbanValidator ==
    /\ ibanResult = NotSettled
    /\ ibanResult' = ibanValidator(ibanValue)
    /\ UNCHANGED <<ibanValue, ibanTyped, IbanOthers>>

IbanNext == IbanFieldChange \/ RunIbanValidator

\* ---- C11 ----
\* the remainder of a decimal number modulo 97, digit by digit
RECURSIVE DecimalMod97(_)
DecimalMod97(digits) ==
    IF digits = <<>> THEN 0
    ELSE (10 * DecimalMod97(SubSeq(digits, 1, Len(digits) - 1))
            + ParseDigit(digits[Len(digits)])) % 97

\* the value with its IR prefix, in upper case
WithIR(chars) ==
    IF startsWithIR(toUpperCase(chars)) THEN toUpperCase(chars)
    ELSE <<"I", "R">> \o toUpperCase(chars)

\* ISO 7064 mod-97: the first four characters moved to the end, I read as
\* 18 and R as 27, the number leaves remainder 1
IsValidIban(iban) ==
    LET bban == SubSeq(iban, 5, Len(iban))
        check == SubSeq(iban, 3, 4)
    IN /\ Len(iban) > 4
       /\ \A i \in 3..Len(iban) : IsDigit(iban[i])
       /\ DecimalMod97(bban \o <<"1", "8", "2", "7">> \o check) = 1

ExpectedIbanResult(value) ==
    IF Falsy(value) THEN [kind |-> "resolve", msg |-> "none"]
    ELSE IF Len(value.v) \notin {24, 26}
    THEN [kind |-> "reject", msg |-> "ibanLengthValidation"]
    ELSE IF IsValidIban(WithIR(value.v))
    THEN [kind |-> "resolve", msg |-> "none"]
    ELSE [kind |-> "reject", msg |-> "invalidIban"]

\* C11: the IBAN rule resolves for an empty value, rejects with the length
\* error when the value's length is neither 24 nor 26, and otherwise
\* resolves exactly when the IBAN, with its IR prefix, passes the ISO 7064
\* mod-97 check and rejects with the invalid-IBAN error when it does not;
\* a valid Iranian IBAN entered through IbanField is accepted.
C11_IbanRule ==
    ibanResult # NotSettled => ibanResult = ExpectedIbanResult(ibanValue)

\* the same statement for the values the rule settles without the check
C11_IbanRuleOutsideCheck ==
    (ibanResult # NotSettled /\ (Falsy(ibanValue) \/ Len(ibanValue.v) \notin {24, 26}))
        => ibanResult = ExpectedIbanResult(ibanValue)

\* the validator was run on a valid IBAN typed into IbanField
C11_Witness ==
    /\ ibanTyped
    /\ ibanValue = Str(<<"I", "R">> \o IbanBase \o <<"0", "1">>)
    /\ IsValidIban(ibanValue.v)
    /\ ibanResult = [kind |-> "hang", msg |-> "none"]

\* ---- C22 ----
\* every turn of the loop that starts from `remainder` leaves a shorter
\* remainder, until it has at most two characters
RECURSIVE LoopShortens(_)
LoopShortens(remainder) ==
    \/ Len(remainder) <= 2
    \/ /\ Len(Mod97Step(remainder)) < Len(remainder)
       /\ LoopShortens(Mod97Step(remainder))

\* the rule's validator reaches the loop for this value
ReachesLoop(value) == ~Falsy(value) /\ Len(value.v) \in {24, 26}

\* C22: the IBAN validator terminates on every input: for every string
\* value (with or without the IR prefix, of any length) the rule's validator
\* finishes and either resolves or rejects, and the loop of
\* ibanISO7064Mod97Validator strictly shortens its remainder on every turn
\* until it has at most two characters.
C22_IbanValidatorTerminates ==
    ibanResult # NotSettled =>
        /\ ibanResult.kind \in {"resolve", "reject"}
        /\ ReachesLoop(ibanValue) => LoopShortens(WithIR(ibanValue.v))

\* the same statement for the values that do not reach the loop
C22_TerminatesOutsideLoop ==
    (ibanResult # NotSettled /\ ~ReachesLoop(ibanValue))
        => ibanResult.kind \in {"resolve", "reject"}

\* the validator was run on 24 digits typed without the prefix and did not
\* return
C22_Witness ==
    /\ ibanTyped
    /\ ibanValue = Str(IbanBase \o <<"0", "1">>)
    /\ ibanResult.kind = "hang"

(***************************************************************************)
(* The create / edit / delete ebill-type modals                            *)
(* (ebill-type-management.tsx) over usePost, usePatch and useDelete        *)
(***************************************************************************)
ModalKinds == {"addEbillTypeModal", "editEbillTypeModal", "deleteEbillTypeModal"}

NoOptions == Undefined

\* { onSuccess, onError } of handleSubmit and handleDelete
ModalCallbacks == [t |-> "options", onSuccess |-> "onSuccess", onError |-> "onError"]

\* the hook's mutate: async (data) => qMutate(data); what reaches the
\* mutation is the data, a second argument is not taken
hookMutate(data, options) == [data |-> data, options |-> NoOptions]

ModalFieldValues == {Str(<<"x">>), Str(<<"y">>), Str(<<"z">>)}

\* the server's answers
ServerAnswers ==
    { [t |-> "response", isSuccess |-> TRUE, message |-> Null],
      [t |-> "response", isSuccess |-> FALSE, message |-> Str(<<"no">>)] }

NoToast == "none"

ModalIdle ==
    /\ modalId = "addEbillTypeModal"
    /\ modalVisible = FALSE
    /\ modalFields = Undefined
    /\ modalRequest = NoRequest
    /\ modalMutation = IdleMutation
    /\ toast = NoToast
    /\ listRefetched = FALSE

\* one of the modals was opened
ModalInit ==
    /\ modalId \in ModalKinds
    /\ modalVisible = TRUE
    /\ modalFields \in ModalFieldValues
    /\ modalRequest = NoRequest
    /\ modalMutation = IdleMutation
    /\ toast = NoToast
    /\ listRefetched = FALSE

ModalOthers == <<cardVars, depVars, groupVars, builderVars, getVars, mutVars,
                 ibanVars, toggleVars, layoutVars, afVars, calcVars,
                 sortVars, fileVars, wizVars>>

\* the user edits the form of the modal
ModalInput ==
    \E value \in ModalFieldValues :
        /\ modalVisible
        /\ modalId # "deleteEbillTypeModal"
        /\ value # modalFields
        /\ modalFields' = value
        /\ UNCHANGED <<modalId, modalVisible, modalRequest, modalMutation, toast,
                       listRefetched, ModalOthers>>

\* handleSubmit / handleDelete: mutate(fields, { onSuccess, onError })
ModalSubmit ==
    /\ modalVisible
    /\ modalRequest = NoRequest
    /\ modalRequest' = hookMutate(modalFields, ModalCallbacks)
    /\ modalMutation' = [status |-> "pending", data |-> Undefined, error |-> Null]
    /\ UNCHANGED <<modalId, modalVisible, modalFields, toast, listRefetched,
                   ModalOthers>>

\* onSuccess(response) of the modal
ModalOnSuccess(response) ==
    IF response.isSuccess
    THEN /\ toast' = "success"
         /\ listRefetched' = TRUE
         /\ modalVisible' = FALSE
    ELSE /\ toast' = "error"
         /\ UNCHANGED <<listRefetched, modalVisible>>

\* onError() of the modal
ModalOnError ==
    /\ toast' = "error"
    /\ UNCHANGED <<listRefetched, modalVisible>>

\* the server answers: the mutation settles and calls the callbacks it was
\* given
ModalAnswer(response) ==
    /\ modalRequest # NoRequest
    /\ modalRequest' = NoRequest
    /\ modalMutation' = [status |-> "success", data |-> response, error |-> Null]
    /\ IF modalRequest.options # NoOptions THEN ModalOnSuccess(response)
       ELSE UNCHANGED <<toast, listRefetched, modalVisible>>
    /\ UNCHANGED <<modalId, modalFields, ModalOthers>>

ModalAnswers == \E response \in ServerAnswers : ModalAnswer(response)

\* the request fails: mutationFn throws
ModalFailure(failure) ==
    /\ modalRequest # NoRequest
    /\ modalRequest' = NoRequest
    /\ modalMutation' = [status |-> "error", data |-> Undefined,
                         error |-> mutationFnThrown(failure)]
    /\ IF modalRequest.options # NoOptions THEN ModalOnError
       ELSE UNCHANGED <<toast, listRefetched, modalVisible>>
    /\ UNCHANGED <<modalId, modalFields, ModalOthers>>

ModalFails == \E failure \in Failures : ModalFailure(failure)

\* the user closes the modal
ModalClose ==
    /\ modalVisible
    /\ modalVisible' = FALSE
    /\ UNCHANGED <<modalId, modalFields, modalRequest, modalMutation, toast,
                   listRefetched, ModalOthers>>

ModalNext ==
    \/ ModalInput
    \/ ModalSubmit
    \/ ModalAnswers
    \/ ModalFails
    \/ ModalClose

\* ---- C12 ----
\* C12: after the final submit (or delete) of a create / edit / delete modal
\* the data is sent; an answer with isSuccess = true shows a success toast,
\* refetches the ebill-type list and closes the modal; an answer with
\* isSuccess = false, or a failed request, shows an error toast and leaves
\* the modal open.
C12_ModalFollowsAnswer ==
    [][/\ ModalSubmit => modalRequest'.data = modalFields
       /\ \A response \in ServerAnswers :
             (ModalAnswer(response) /\ modalVisible) =>
                 IF response.isSuccess
                 THEN toast' = "success" /\ listRefetched' /\ ~modalVisible'
                 ELSE toast' = "error" /\ modalVisible'
       /\ \A failure \in Failures :
             (ModalFailure(failure) /\ modalVisible) =>
                 (toast' = "error" /\ modalVisible')]_vars

\* the data is sent on submit
C12_SubmitSendsData ==
    [][ModalSubmit => modalRequest'.data = modalFields]_vars

\* the server accepted the new ebill type and the add modal is still open,
\* without a toast and without a refetch of the list
C12_Witness ==
    /\ modalId = "addEbillTypeModal"
    /\ modalMutation.status = "success"
    /\ modalMutation.data.isSuccess
    /\ modalVisible
    /\ toast = NoToast
    /\ ~listRefetched

(***************************************************************************)
(* useControlledForm: the disabled flag (form.tsx)                         *)
(***************************************************************************)
MaxToggleCalls == 3

\* toggleFormDisable's arguments: none, true, false
ToggleArgs == {Undefined, Bool(TRUE), Bool(FALSE)}

\* the options' disabledForm and the disabled prop given to ControlledForm
FlagOptions == {Undefined, Bool(TRUE), Bool(FALSE)}

\* the updater, were the argument not looked at
toggleAlways(prev, newStatus) == ~prev

\* (prev) => (newStatus === undefined ? !prev : newStatus)
toggleUpdater(prev, newStatus) ==
    IF newStatus = Undefined THEN ~prev ELSE newStatus.v

\* the state after the queued updaters ran in order
RECURSIVE ApplyUpdates(_, _)
ApplyUpdates(state, queue) ==
    IF queue = <<>> THEN state
    ELSE ApplyUpdates(toggleUpdater(state, Head(queue)), Tail(queue))

\* useState(disabledForm ?? false)
InitialDisabled(option) == IF option = Undefined THEN FALSE ELSE option.v

\* ControlledForm: disabled: isDisabled ? isDisabled : props.disabled
ControlledDisabled(flag, prop) == IF flag THEN Bool(TRUE) ELSE prop

ToggleIdle ==
    /\ disabledForm = Undefined
    /\ isDisabled = FALSE
    /\ toggleCalls = <<>>
    /\ updateQueue = <<>>
    /\ propsDisabled = Undefined
    /\ formDisabled = Undefined

\* the first render of the hook and of its ControlledForm
ToggleInit ==
    /\ disabledForm \in FlagOptions
    /\ isDisabled = InitialDisabled(disabledForm)
    /\ toggleCalls = <<>>
    /\ updateQueue = <<>>
    /\ propsDisabled \in FlagOptions
    /\ formDisabled = ControlledDisabled(isDisabled, propsDisabled)

ToggleOthers == <<cardVars, depVars, groupVars, builderVars, getVars,
                  mutVars, ibanVars, modalVars, layoutVars, afVars, calcVars,
                  sortVars, fileVars, wizVars>>

\* toggleFormDisable(newStatus): the updater is queued
toggleFormDisable ==
    \E newStatus \in ToggleArgs :
        /\ Len(toggleCalls) < MaxToggleCalls
        /\ toggleCalls' = Append(toggleCalls, newStatus)
        /\ updateQueue' = Append(updateQueue, newStatus)
        /\ UNCHANGED <<disabledForm, isDisabled, propsDisabled, formDisabled,
                       ToggleOthers>>

\* the next render: the queued updaters run, ControlledForm renders with
\* the props its parent passes
RenderControlledForm ==
    \E prop \in FlagOptions :
        /\ updateQueue # <<>> \/ prop # propsDisabled
        /\ isDisabled' = ApplyUpdates(isDisabled, updateQueue)
        /\ updateQueue' = <<>>
        /\ propsDisabled' = prop
        /\ formDisabled' = ControlledDisabled(isDisabled', prop)
        /\ UNCHANGED <<disabledForm, toggleCalls, ToggleOthers>>

ToggleNext == toggleFormDisable \/ RenderControlledForm

\* ---- C13 ----
\* the fold of the calls: no argument flips, an argument sets
RECURSIVE FoldToggles(_, _)
FoldToggles(start, calls) ==
    IF calls = <<>> THEN start
    ELSE LET before == FoldToggles(start, SubSeq(calls, 1, Len(calls) - 1))
             last == calls[Len(calls)]
         IN IF last = Undefined THEN ~before ELSE last = Bool(TRUE)

\* C13: the disabled flag starts at disabledForm (false when omitted);
\* toggleFormDisable() flips it and toggleFormDisable(b) sets it to b, so
\* after any sequence of calls the flag is the fold of the calls; the
\* rendered ControlledForm is disabled exactly when the flag is true or the
\* disabled prop passed to it is true.
C13_FlagIsFoldOfCalls ==
    updateQueue = <<>> =>
        /\ isDisabled = FoldToggles(disabledForm = Bool(TRUE), toggleCalls)
        /\ (formDisabled = Bool(TRUE)) <=> (isDisabled \/ propsDisabled = Bool(TRUE))

\* true was set twice on an enabled form, then the flag was flipped
C13_Witness ==
    /\ disabledForm = Undefined
    /\ toggleCalls = <<Bool(TRUE), Bool(TRUE), Undefined>>
    /\ updateQueue = <<>>
    /\ ~isDisabled
    /\ propsDisabled = Bool(TRUE)
    /\ formDisabled = Bool(TRUE)

(***************************************************************************)
(* Rows of a form: groupFields (form.tsx)                                  *)
(***************************************************************************)
MaxFields == 4

\* layout?.endPoint of a field: no layout, true, false
EndPointOptions == {Undefined, Bool(TRUE), Bool(FALSE)}

\* the schemas: fields named by their position
LayoutSchemas ==
    UNION { { [i \in 1..n |-> [name |-> i, endPoint |-> e[i]]] :
                e \in [1..n -> EndPointOptions] } : n \in 0..MaxFields }

\* the reducer: rows.at(-1)?.push(field); if (endPoint) rows.push([])
RECURSIVE ReduceRows(_, _)
ReduceRows(rows, fields) ==
    IF fields = <<>> THEN rows
    ELSE LET field == Head(fields)
             pushed == [rows EXCEPT ![Len(rows)] = Append(@, field)]
         IN ReduceRows(IF Truthy(field.endPoint) THEN Append(pushed, <<>>)
                       ELSE pushed,
                       Tail(fields))

\* groupFields without its filter
groupFieldsUnfiltered(fields) == ReduceRows(<< <<>> >>, fields)

groupFields(fields) ==
    SelectSeq(ReduceRows(<< <<>> >>, fields), LAMBDA row : Len(row) > 0)

NotGrouped == << <<[name |-> 0, endPoint |-> Undefined]>> >>

LayoutIdle ==
    /\ layoutFields = <<>>
    /\ layoutRows = NotGrouped

LayoutInit ==
    /\ layoutFields \in LayoutSchemas
    /\ layoutRows = NotGrouped

LayoutOthers == <<cardVars, depVars, groupVars, builderVars, getVars,
                  mutVars, ibanVars, modalVars, toggleVars, afVars, calcVars,
                  sortVars, fileVars, wizVars>>

\* FormFieldsRow renders: rows = groupFields(fields)
RenderRows ==
    /\ layoutRows = NotGrouped
    /\ layoutRows' = groupFields(layoutFields)
    /\ UNCHANGED <<layoutFields, LayoutOthers>>

LayoutNext == RenderRows

\* ---- C14 ----
RECURSIVE Flatten(_)
Flatten(rows) ==
    IF rows = <<>> THEN <<>> ELSE Head(rows) \o Flatten(Tail(rows))

\* C14: groupFields splits the schema into rows whose concatenation, in
\* order, is the original field list; a row ends exactly after each field
\* with layout.endPoint = true and at the end of the list; no row is empty.
C14_RowsEndAtEndPoints ==
    layoutRows # NotGrouped =>
        /\ Flatten(layoutRows) = layoutFields
        /\ \A r \in 1..Len(layoutRows) :
              /\ Len(layoutRows[r]) > 0
              /\ \A i \in 1..Len(layoutRows[r]) :
                    (layoutRows[r][i].endPoint = Bool(TRUE)
                        \/ layoutRows[r][i].name = Len(layoutFields))
                    <=> i = Len(layoutRows[r])

\* a schema with an endPoint in the middle and one at the end was grouped
C14_Witness ==
    /\ Len(layoutFields) = 4
    /\ layoutFields[2].endPoint = Bool(TRUE)
    /\ layoutFields[4].endPoint = Bool(TRUE)
    /\ layoutFields[1].endPoint = Bool(FALSE)
    /\ layoutFields[3].endPoint = Undefined
    /\ layoutRows = <<SubSeq(layoutFields, 1, 2), SubSeq(layoutFields, 3, 4)>>

\* ---- C15 ----
\* C15: pressing the reset button of a form with autoSyncWithQueryParams
\* that is not disabled removes all URL query parameters before onReset is
\* called; without autoSyncWithQueryParams, or when the form is disabled,
\* reset leaves the query parameters unchanged and still calls onReset; the
\* reset button does not exist when readOnly is true or reset is false.
C15_ResetClearsParams ==
    [][ResetClick =>
          /\ ~bProps.readOnly /\ bProps.reset # Bool(FALSE)
          /\ IF bProps.autoSyncWithQueryParams /\ ~bProps.disabled
             THEN /\ bTrace' = <<Call("removeAllParams", <<>>), Call("onReset", <<>>)>>
                  /\ queryParams' = NoParams
             ELSE /\ bTrace' = <<Call("onReset", <<>>)>>
                  /\ queryParams' = queryParams]_vars

\* the reset button of a synced form with query parameters was pressed
C15_Witness ==
    /\ bProps.autoSyncWithQueryParams /\ ~bProps.disabled /\ ~bProps.readOnly
    /\ bTrace = <<Call("removeAllParams", <<>>), Call("onReset", <<>>)>>
    /\ queryParams = NoParams
    /\ bValues["title"] = Undefined

\* the reset button of a disabled synced form was pressed
C15_WitnessDisabled ==
    /\ bProps.autoSyncWithQueryParams /\ bProps.disabled
    /\ bTrace = <<Call("onReset", <<>>)>>
    /\ queryParams # NoParams

(***************************************************************************)
(* The auto-fill demo: DemoAutoFillForm (form-dependencies.tsx) rendered   *)
(* by FormFieldsRenderer (form.tsx)                                        *)
(***************************************************************************)
MaxRenders == 4

\* how often one render of the nickname renderer calls `hidden`:
\* commonInputProps.hidden and getCommonFormItemProps().hidden
CallsPerRender == 2

Fada == Str(<<"f","a","d","a">>)

Tehran == Str(<<"T","E","H","R","A","N">>)

Ali == Str(<<"a","l","i">>)

AutoFillFields == {"city", "name", "nickname"}

\* dependencies: ["name"] of the nickname field
AutoFillDependencies == {"name"}

\* initialValues of the ControlledForm
AutoFillInitialValues ==
    [f \in AutoFillFields |->
        IF f = "city" THEN Tehran ELSE EmptyString]

\* what a user may type into a field
AutoFillTyped == {EmptyString, Arash, Ali}

\* the selector given to Form.useWatch: the dependencies' values
watchSelector(store) == Obj([d \in AutoFillDependencies |-> store[d]])

\* values?.name
OptionalName(values) ==
    IF values = Undefined THEN Undefined ELSE values.v["name"]

\* a `hidden` that never writes
hiddenWithoutFill(values, store) == store

\* the nickname field's `hidden`: the store after the call (it returns false)
hiddenCallback(values, store) ==
    IF OptionalName(values) = Arash
    THEN [store EXCEPT !["nickname"] = Fada, !["city"] = values.v["name"]]
    ELSE store

\* the calls of one render, one after the other
RECURSIVE CallHidden(_, _, _)
CallHidden(n, values, store) ==
    IF n = 0 THEN store
    ELSE CallHidden(n - 1, values, hiddenCallback(values, store))

\* useWatch's test before setValue: the selected values differ as JSON
watchChanged(prev, next) == prev # next

AutoFillIdle ==
    /\ afStore = AutoFillInitialValues
    /\ afWatch = watchSelector(AutoFillInitialValues)
    /\ afRenderPending = FALSE
    /\ afRenders = 0

\* mounted: the store holds the initial values, useWatch's state is still
\* undefined and the first render is due
AutoFillInit ==
    /\ afStore = AutoFillInitialValues
    /\ afWatch = Undefined
    /\ afRenderPending = TRUE
    /\ afRenders = 0

AutoFillOthers == <<cardVars, depVars, groupVars, builderVars, getVars,
                    mutVars, ibanVars, modalVars, toggleVars, layoutVars,
                    calcVars, sortVars, fileVars, wizVars>>

\* the store changed: useWatch runs the selector and sets its state, which
\* schedules a render, only when the selected values changed
AutoFillNotify(store) ==
    LET next == watchSelector(store)
    IN IF watchChanged(afWatch, next)
       THEN /\ afWatch' = next
            /\ afRenderPending' = TRUE
       ELSE /\ afWatch' = afWatch
            /\ afRenderPending' = FALSE

\* FormFieldsRenderer of the nickname field renders: relationHandler calls
\* `hidden` with the watched values; its setFieldsValue notifies useWatch
AutoFillRender ==
    /\ afRenderPending
    /\ afRenders < MaxRenders
    /\ afRenders' = afRenders + 1
    /\ afStore' = CallHidden(CallsPerRender, afWatch, afStore)
    /\ AutoFillNotify(afStore')
    /\ UNCHANGED AutoFillOthers

\* the user types into one of the three inputs
AutoFillInput(field, typed) ==
    /\ ~afRenderPending
    /\ afStore[field] # typed
    /\ afStore' = [afStore EXCEPT ![field] = typed]
    /\ afRenders' = 0
    /\ AutoFillNotify(afStore')
    /\ UNCHANGED AutoFillOthers

AutoFillInputs ==
    \E field \in AutoFillFields, typed \in AutoFillTyped :
        AutoFillInput(field, typed)

AutoFillNext ==
    \/ AutoFillRender
    \/ AutoFillInputs

\* ---- C16 ----
AutoFilled ==
    /\ afStore["nickname"] = Fada
    /\ afStore["city"] = Arash

\* C16: in the auto-fill demo, once name is "arash" the pending render
\* leads to nickname = "fada" and city = "arash"; the two stay so on every
\* step that is not a user's input; and the callback's setFieldsValue does
\* not schedule render after render: at most two renders follow the mount
\* (useWatch's state is set after the first) or an input, and then none is due.
C16_AutoFillSettles ==
    /\ (afStore["name"] = Arash /\ afRenderPending) ~> AutoFilled
    /\ [][(AutoFilled /\ ~AutoFillInputs) => AutoFilled']_vars
    /\ [](afRenders <= 2)
    /\ [](afRenders = 2 => ~afRenderPending)

C16_Witness ==
    /\ afStore["name"] = Arash
    /\ AutoFilled
    /\ ~afRenderPending
    /\ afRenders = 1

(***************************************************************************)
(* Calculator field and its modal: CalculatorField, ModalCalculatorField,  *)
(* ButtonsCalculatorField (form.tsx)                                       *)
(***************************************************************************)
\* buttons of the three types: insert (their token), delete (←), clear (C)
CalcButtons ==
    { [value |-> <<"1">>, type |-> "insert"],
      [value |-> <<"+">>, type |-> "insert"],
      [value |-> <<"s","i","n","[">>, type |-> "insert"],
      [value |-> <<"<-">>, type |-> "delete"],
      [value |-> <<"C">>, type |-> "clear"] }

\* ModalCalculatorField.onFormulaChange: the value it sets for `formulas`
onFormulaChange(currentFormulas, value, type) ==
    LET newFormulas == IF currentFormulas = Undefined THEN <<>>
                       ELSE currentFormulas.v
    IN IF type = "insert" THEN Arr(Append(newFormulas, Str(value)))
       ELSE IF type = "delete"
       THEN Arr(SubSeq(newFormulas, 1, Len(newFormulas) - 1))
       ELSE Arr(<<>>)

\* the props RenderBusinessElement creates a business element with
BusinessElementProps == {"id", "name", "value", "onChange", "validation",
                         "form", "options"}

\* the `formulas` field of the modal's form, as far as it matters here: a
\* business field with a top-level initialValue and no options
FormulasField(formulaValues) ==
    [name |-> "formulas", type |-> "business",
     initialValue |-> Arr(formulaValues), options |-> {}]

\* the initialValue FormFieldsRenderer gives the Form.Item of a field: for a
\* business field renderFormItem({}, ...) passes none, and the inputs read
\* options.initialValue
FormItemInitialValue(field) ==
    IF field.type = "business" THEN Undefined
    ELSE IF "initialValue" \in field.options THEN field.initialValue
    ELSE Undefined

\* ButtonsCalculatorField's render: ({ onFormulaChange }) is taken from the
\* props (the modal hands it over in options.extraProps), and
\* onFormulaChange.bind(...) is evaluated for every button
RenderButtons(props) ==
    IF "onFormulaChange" \in props THEN "open" ELSE "TypeError"

\* the strings a calculator field holds
CalcStrings ==
    { EmptyString, Str(<<"1">>), Str(<<"1","+">>), Str(<<"1","+","1">>),
      Str(<<"+">>), Str(<<"s","i","n","[">>), Str(<<"s","i","n","[","1">>),
      Str(<<"1","1">>) }

CalcValues == {Undefined} \cup CalcStrings

CalcOptionsSet == [disabled : BOOLEAN, readOnly : BOOLEAN]

\* useRef(fieldValue ? [fieldValue] : [])
InitialValueArray(fieldValue) ==
    IF Truthy(fieldValue) THEN <<fieldValue>> ELSE <<>>

CalcIdle ==
    /\ calcValue = Undefined
    /\ calcOptions = [disabled |-> FALSE, readOnly |-> FALSE]
    /\ fieldValueArray = <<>>
    /\ calcModal = "closed"
    /\ calcFormulaValues = <<>>
    /\ formulas = Undefined

CalcInit ==
    /\ calcValue \in CalcValues
    /\ calcOptions \in CalcOptionsSet
    /\ fieldValueArray = InitialValueArray(calcValue)
    /\ calcModal = "closed"
    /\ calcFormulaValues = <<>>
    /\ formulas = Undefined

CalcOthers == <<cardVars, depVars, groupVars, builderVars, getVars, mutVars,
                ibanVars, modalVars, toggleVars, layoutVars, afVars,
                sortVars, fileVars, wizVars>>

\* the field's value changes (typed into the input or set through the
\* form); the effect on [fieldValue] refreshes the ref for a truthy value
CalcValueChange ==
    \E fieldValue \in CalcValues :
        /\ calcModal = "closed"
        /\ fieldValue # calcValue
        /\ calcValue' = fieldValue
        /\ fieldValueArray' = IF Truthy(fieldValue) THEN <<fieldValue>>
                              ELSE fieldValueArray
        /\ UNCHANGED <<calcOptions, calcModal, calcFormulaValues, formulas,
                       CalcOthers>>

\* CalculatorField.handleFocus: modal.info renders ModalCalculatorField with
\* formulaValues = fieldValueArray.current; its form mounts the `formulas`
\* item and the buttons element
handleFocus ==
    /\ calcModal = "closed"
    /\ IF calcOptions.disabled \/ calcOptions.readOnly
       THEN UNCHANGED <<calcModal, calcFormulaValues, formulas>>
       ELSE /\ calcFormulaValues' = fieldValueArray
            /\ formulas' = FormItemInitialValue(FormulasField(fieldValueArray))
            /\ calcModal' = RenderButtons(BusinessElementProps)
    /\ UNCHANGED <<calcValue, calcOptions, fieldValueArray, CalcOthers>>

CalcNext ==
    \/ CalcValueChange
    \/ handleFocus

\* ---- C19 ----
\* the fold of the claim: insert appends the token, ← removes the last token
\* (nothing on an empty list), C empties the list
FoldButton(tokens, button) ==
    IF button.type = "insert" THEN Append(tokens, Str(button.value))
    ELSE IF button.type = "delete"
    THEN (IF tokens = <<>> THEN <<>> ELSE SubSeq(tokens, 1, Len(tokens) - 1))
    ELSE <<>>

\* C19: in the calculator modal the formula is a list of tokens that starts
\* as the list the modal opened with and that the buttons fold (insert
\* appends the button's token, ← removes the last token, C empties the
\* list); submit passes the concatenation of the tokens to onChange.  Stated
\* for the modal as it opens: it is rendered with its buttons, its list is
\* the list it was opened with, and every button's press would fold it.
C19_ModalFoldsTokens ==
    calcModal # "closed" =>
        /\ calcModal = "open"
        /\ formulas = Arr(calcFormulaValues)
        /\ \A button \in CalcButtons :
              onFormulaChange(formulas, button.value, button.type)
                  = Arr(FoldButton(calcFormulaValues, button))

\* onFormulaChange alone is the fold of the claim, for every list of up to
\* two tokens and the empty store
C19_HandlerFolds ==
    \A button \in CalcButtons :
        /\ onFormulaChange(Undefined, button.value, button.type)
               = Arr(FoldButton(<<>>, button))
        /\ \A first \in CalcStrings :
              /\ onFormulaChange(Arr(<<first>>), button.value, button.type)
                     = Arr(FoldButton(<<first>>, button))
              /\ \A second \in CalcStrings :
                    onFormulaChange(Arr(<<first, second>>), button.value,
                                    button.type)
                        = Arr(FoldButton(<<first, second>>, button))

\* the modal was opened on a field that holds "1+" and its content did not
\* render
C19_Witness ==
    /\ calcValue = Str(<<"1","+">>)
    /\ calcFormulaValues = <<Str(<<"1","+">>)>>
    /\ formulas = Undefined
    /\ calcModal = "TypeError"

(***************************************************************************)
(* Sortable list: SortableField (form.tsx)                                 *)
(***************************************************************************)
MaxSortItems == 3

\* an item of the value: its label and its _sortableKey; NoKey stands for an
\* item without one and for the id of no item
NoKey == 0

SortKeys == 1..MaxSortItems

SortLabels == {"A", "B"}

SortItem(label, key) == [label |-> label, _sortableKey |-> key]

KeysOf(list) == {list[i]._sortableKey : i \in 1..Len(list)} \ {NoKey}

KeysAreDistinct(list) ==
    \A i, j \in 1..Len(list) :
        (i # j /\ list[i]._sortableKey # NoKey)
            => list[i]._sortableKey # list[j]._sortableKey

\* the keys the items of a given value may carry
GivenKeys == 1..2

\* the arrays a sortable field is given: items without a key and items that
\* carry the key an earlier SortableField gave them
SortValues ==
    UNION { { v \in [1..n -> [label : SortLabels,
                              _sortableKey : {NoKey} \cup GivenKeys]] :
                KeysAreDistinct(v) } : n \in 0..MaxSortItems }

\* generateUuidV4(): a key no item has; which one is immaterial, the model
\* takes the least
FreshKey(used) == CHOOSE k \in SortKeys \ used : \A l \in SortKeys \ used : k <= l

\* value.map((item) => ({ ...item, _sortableKey: item._sortableKey || uuid }))
RECURSIVE WithSortableKeys(_, _)
WithSortableKeys(value, used) ==
    IF value = <<>> THEN <<>>
    ELSE LET item == Head(value)
             key == IF item._sortableKey # NoKey THEN item._sortableKey
                    ELSE FreshKey(used)
         IN <<SortItem(item.label, key)>>
                \o WithSortableKeys(Tail(value), used \cup {key})

\* the data state for a value prop that is an array (for any other value
\* the list is empty and nothing can be dragged)
DataOf(value) == WithSortableKeys(value, KeysOf(value))

\* prevData.findIndex((item) => item._sortableKey === id), counted from 0
RECURSIVE findIndexFrom(_, _, _)
findIndexFrom(list, id, i) ==
    IF i > Len(list) THEN -1
    ELSE IF list[i]._sortableKey = id THEN i - 1
    ELSE findIndexFrom(list, id, i + 1)

findIndex(list, id) == findIndexFrom(list, id, 1)

\* array.splice(start, 1): the start it uses
SpliceStart(start, length) ==
    IF start < 0 THEN (IF length + start < 0 THEN 0 ELSE length + start)
    ELSE IF start > length THEN length ELSE start

\* @dnd-kit/sortable arrayMove: newArray.splice(to < 0 ? length + to : to, 0,
\* newArray.splice(from, 1)[0])
arrayMove(array, from, to) ==
    LET length == Len(array)
        target == IF to < 0 THEN length + to ELSE to
        start == SpliceStart(from, length)
        removed == IF start < length THEN <<array[start + 1]>> ELSE <<>>
        rest == IF start < length
                THEN SubSeq(array, 1, start) \o SubSeq(array, start + 2, length)
                ELSE array
        at == SpliceStart(target, Len(rest))
    IN IF removed = <<>> THEN rest
       ELSE SubSeq(rest, 1, at) \o removed \o SubSeq(rest, at + 1, Len(rest))

NotCalled == [called |-> FALSE, arg |-> <<>>]

CalledWith(arg) == [called |-> TRUE, arg |-> arg]

SortOptionsSet == [disabled : BOOLEAN, readOnly : BOOLEAN]

SortIdle ==
    /\ sortOriginal = <<>>
    /\ sortValue = <<>>
    /\ sortOptions = [disabled |-> FALSE, readOnly |-> FALSE]
    /\ sortData = <<>>
    /\ sortOnChange = NotCalled

\* a mounted SortableField
SortInit ==
    /\ sortOriginal \in SortValues
    /\ sortValue = sortOriginal
    /\ sortOptions \in SortOptionsSet
    /\ sortData = DataOf(sortOriginal)
    /\ sortOnChange = NotCalled

SortOthers == <<cardVars, depVars, groupVars, builderVars, getVars, mutVars,
                ibanVars, modalVars, toggleVars, layoutVars, afVars,
                calcVars, fileVars, wizVars>>

\* the updater of setData with onChange inside it; the form takes the new
\* value and the effect on [value] sets the data from it
MoveItem(activeId, overId) ==
    LET activeIndex == findIndex(sortData, activeId)
        overIndex == findIndex(sortData, overId)
        newData == arrayMove(sortData, activeIndex, overIndex)
    IN /\ sortOnChange' = CalledWith(newData)
       /\ sortValue' = newData
       /\ sortData' = DataOf(sortValue')

\* an onDragEnd that does not compare the two ids
onDragEndUnguarded(activeId, overId) ==
    /\ MoveItem(activeId, overId)
    /\ UNCHANGED <<sortOriginal, sortOptions, SortOthers>>

onDragEnd(activeId, overId) ==
    /\ IF activeId # overId
       THEN MoveItem(activeId, overId)
       ELSE UNCHANGED <<sortValue, sortData, sortOnChange>>
    /\ UNCHANGED <<sortOriginal, sortOptions, SortOthers>>

\* a drag of an item ends over an item or over none (the SortableContext is
\* disabled for a disabled or read-only field)
DragEnds ==
    \E activeId \in KeysOf(sortData), overId \in KeysOf(sortData) \cup {NoKey} :
        /\ ~(sortOptions.disabled \/ sortOptions.readOnly)
        /\ onDragEnd(activeId, overId)

SortNext == DragEnds

\* ---- C20 ----
\* list `after` is list `before` with the item at position `from` taken out
\* and put at position `to` (positions from 1)
IsMoved(before, after, from, to) ==
    /\ Len(after) = Len(before)
    /\ after[to] = before[from]
    /\ \A i \in 1..Len(before) :
          i # to =>
             after[i] = IF from < to
                        THEN (IF i < from \/ i > to THEN before[i]
                              ELSE before[i + 1])
                        ELSE (IF i < to \/ i > from THEN before[i]
                              ELSE before[i - 1])

PositionOf(list, key) == CHOOSE i \in 1..Len(list) : list[i]._sortableKey = key

\* `list` holds the items of the original value, each once, each with the
\* key it had or was given at the mount, and no key twice
IsPermutationOfOriginal(list) ==
    LET original == DataOf(sortOriginal)
    IN /\ Len(list) = Len(original)
       /\ KeysAreDistinct(list)
       /\ \E p \in Permutations(1..Len(original)) :
             \A i \in 1..Len(original) : list[i] = original[p[i]]

\* C20: a drag that ends over a different item moves the dragged item to
\* that item's position and passes the new list to onChange; after any
\* sequence of drags the list is a permutation of the original value (same
\* items, each keeping its _sortableKey, keys pairwise distinct); a drag
\* that ends over the dragged item itself changes nothing and does not call
\* onChange.
C20_DragsPermuteTheList ==
    /\ [][\A activeId \in KeysOf(sortData), overId \in KeysOf(sortData) :
            onDragEnd(activeId, overId) =>
                IF activeId # overId
                THEN /\ IsMoved(sortData, sortData',
                                PositionOf(sortData, activeId),
                                PositionOf(sortData, overId))
                     /\ sortOnChange' = CalledWith(sortData')
                ELSE UNCHANGED <<sortData, sortValue, sortOnChange>>]_vars
    /\ [](IsPermutationOfOriginal(sortData))
    /\ [](sortOnChange.called => sortOnChange.arg = sortData)

\* after drags, the last one over another item, a list of three items with
\* two equal labels and one key of its own is in another order
C20_Witness ==
    /\ sortOriginal = <<SortItem("A", NoKey), SortItem("B", 1), SortItem("A", NoKey)>>
    /\ sortData = <<SortItem("A", 3), SortItem("A", 2), SortItem("B", 1)>>
    /\ sortOnChange = CalledWith(sortData)

(***************************************************************************)
(* File fields: FileParserField and FileUploaderField (form.tsx)           *)
(***************************************************************************)
MaxUploads == 2

UpperLetters == <<"A","B","C","D","E","F","G","H","I","J","K","L","M","N",
                  "O","P","Q","R","S","T","U","V","W","X","Y","Z">>

LowerLetters == <<"a","b","c","d","e","f","g","h","i","j","k","l","m","n",
                  "o","p","q","r","s","t","u","v","w","x","y","z">>

Digits09 == {"0","1","2","3","4","5","6","7","8","9"}

LowerChar(ch) ==
    IF \E i \in 1..Len(UpperLetters) : UpperLetters[i] = ch
    THEN LowerLetters[CHOOSE i \in 1..Len(UpperLetters) : UpperLetters[i] = ch]
    ELSE ch

toLowerCase(s) == [i \in 1..Len(s) |-> LowerChar(s[i])]

\* [0-9a-z] under the i flag
IsAlnum(ch) ==
    \/ ch \in Digits09
    \/ \E i \in 1..Len(LowerLetters) : LowerLetters[i] = LowerChar(ch)

ExtJson == <<".","j","s","o","n">>

ExtPng == <<".","p","n","g">>

\* the entries of mimeTypes for .json and .png
mimeTypes(ext) ==
    IF ext = ExtJson THEN <<"a","p","p","l","i","c","a","t","i","o","n","/","j","s","o","n">>
    ELSE IF ext = ExtPng THEN <<"i","m","a","g","e","/","p","n","g">>
    ELSE <<>>

\* the longest run of [0-9a-z] at the end of the name
RECURSIVE AlnumTail(_)
AlnumTail(name) ==
    IF name = <<>> \/ ~IsAlnum(name[Len(name)]) THEN <<>>
    ELSE Append(AlnumTail(SubSeq(name, 1, Len(name) - 1)), name[Len(name)])

NoExtension == <<>>

\* /\.([0-9a-z]+)$/i.exec(fileName): match[0] lowercased and trimmed
getFileExtension(fileName) ==
    LET tail == AlnumTail(fileName)
        dotAt == Len(fileName) - Len(tail)
    IN IF tail # <<>> /\ dotAt >= 1 /\ fileName[dotAt] = "."
       THEN Trim(toLowerCase(<<".">> \o tail))
       ELSE NoExtension

\* accept.find((item) => item.toLowerCase().trim() === ext)
RECURSIVE FindAccepted(_, _)
FindAccepted(accept, ext) ==
    IF accept = <<>> THEN NoExtension
    ELSE IF Trim(toLowerCase(Head(accept))) = ext THEN Head(accept)
    ELSE FindAccepted(Tail(accept), ext)

File(name, type, size, content) ==
    [name |-> name, type |-> type, size |-> size, content |-> content]

\* no file: `undefined`
NoFile == File(<<>>, <<>>, 0, "undefined")

Passed == "passed"

\* the messages of the two fields: the parser field's are English, the
\* uploader field's are Persian sentences, named here by what they say
CheckMessage(kind, failure) ==
    IF kind = "uploader" THEN <<"fa", failure>>
    ELSE IF failure = "noFile" THEN <<"No file provided.">>
    ELSE IF failure = "noExtension" THEN <<"File has no extension.">>
    ELSE IF failure = "invalidExtension" THEN <<"Invalid file extension.">>
    ELSE <<"Invalid file type.">>

\* checkIsValidFile: Passed, or the message of the error it throws
checkIsValidFile(kind, file, accept) ==
    IF file = NoFile THEN CheckMessage(kind, "noFile")
    ELSE LET ext == getFileExtension(file.name)
             matchedExtension == FindAccepted(accept, ext)
             fileMimeType == Trim(toLowerCase(file.type))
         IN IF ext = NoExtension THEN CheckMessage(kind, "noExtension")
            ELSE IF matchedExtension = NoExtension
            THEN CheckMessage(kind, "invalidExtension")
            ELSE IF fileMimeType # mimeTypes(matchedExtension)
            THEN CheckMessage(kind, "invalidType")
            ELSE Passed

\* a size check that lets every file through
checkNoSizeLimit(file, sizeLimit) ==
    IF file = NoFile THEN <<"No file provided.">> ELSE Passed

\* checkSizeLimit; sizeLimit 0 stands for a limit that is not given
checkSizeLimit(file, sizeLimit) ==
    IF file = NoFile THEN <<"No file provided.">>
    ELSE IF sizeLimit # 0 /\ file.size > sizeLimit
    THEN <<"File size exceeds limit.">>
    ELSE Passed

\* messages(generalMessages.notValidFileValidation / readFileError)
NotValidFileMessage == <<"notValidFileValidation">>

ReadFileErrorMessage == <<"readFileError">>

Parsed(how, file) == [parsed |-> how, file |-> file]

\* parseJsonFile / convertToByteArray: what the promise settles to
ParseResult(parser, file) ==
    IF file.content = "unreadable"
    THEN [ok |-> FALSE, value |-> ReadFileErrorMessage]
    ELSE IF parser = "json"
    THEN (IF file.content = "json"
          THEN [ok |-> TRUE, value |-> Parsed("json", file)]
          ELSE [ok |-> FALSE, value |-> NotValidFileMessage])
    ELSE [ok |-> TRUE, value |-> Parsed("byteArray", file)]

\* ---- the files and fields of the file-field specification ----
SizeLimit == 2

FileSamples ==
    { File(<<"a",".","j","s","o","n">>, <<"a","p","p","l","i","c","a","t","i","o","n","/","j","s","o","n">>, 1, "json"),
      File(<<"A",".","J","S","O","N">>, <<"A","p","p","l","i","c","a","t","i","o","n","/","J","S","O","N"," ">>, 1, "json"),
      File(<<"a">>, <<"a","p","p","l","i","c","a","t","i","o","n","/","j","s","o","n">>, 1, "json"),
      File(<<"a",".","p","n","g">>, <<"i","m","a","g","e","/","p","n","g">>, 1, "binary"),
      File(<<"a",".","j","s","o","n">>, <<"i","m","a","g","e","/","p","n","g">>, 1, "json"),
      File(<<"a",".","j","s","o","n">>, <<"a","p","p","l","i","c","a","t","i","o","n","/","j","s","o","n">>, SizeLimit + 1, "json"),
      File(<<"a",".","j","s","o","n">>, <<"a","p","p","l","i","c","a","t","i","o","n","/","j","s","o","n">>, 1, "binary"),
      File(<<"a",".","j","s","o","n">>, <<"a","p","p","l","i","c","a","t","i","o","n","/","j","s","o","n">>, 1, "unreadable") }

FileFields ==
    { [kind |-> "parser", accept |-> <<ExtJson>>, parser |-> p, sizeLimit |-> s] :
          p \in {"json", "byteArray", "undefined"}, s \in {0, SizeLimit} }
    \cup { [kind |-> "uploader", accept |-> a, parser |-> "undefined",
            sizeLimit |-> 0] : a \in {<<ExtJson>>, <<ExtPng, ExtJson>>} }

NoError == <<>>

FileIdle ==
    /\ fileField = [kind |-> "uploader", accept |-> <<ExtJson>>,
                    parser |-> "undefined", sizeLimit |-> 0]
    /\ fileList = NoFile
    /\ fileError = NoError
    /\ fileCalls = <<>>
    /\ fileParsing = {}
    /\ fileUploads = 0

FileInit ==
    /\ fileField \in FileFields
    /\ fileList = NoFile
    /\ fileError = NoError
    /\ fileCalls = <<>>
    /\ fileParsing = {}
    /\ fileUploads = 0

FileOthers == <<cardVars, depVars, groupVars, builderVars, getVars, mutVars,
                ibanVars, modalVars, toggleVars, layoutVars, afVars,
                calcVars, sortVars, wizVars>>

\* props.onChange?.(value); setFileList(file); setError(undefined)
Accept(value, file) ==
    /\ fileCalls' = Append(fileCalls, value)
    /\ fileList' = file
    /\ fileError' = NoError

\* the catch clause: setError(err.message || ...)
Refuse(message) ==
    /\ fileError' = message
    /\ UNCHANGED <<fileCalls, fileList>>

\* handleUpload up to its first await (or to its end)
handleUpload(file) ==
    LET valid == checkIsValidFile(fileField.kind, file, fileField.accept)
        sized == IF fileField.kind = "parser"
                 THEN checkSizeLimit(file, fileField.sizeLimit) ELSE Passed
    IN /\ fileUploads < MaxUploads
       /\ fileUploads' = fileUploads + 1
       /\ IF valid # Passed THEN Refuse(valid) /\ UNCHANGED fileParsing
          ELSE IF sized # Passed THEN Refuse(sized) /\ UNCHANGED fileParsing
          ELSE IF fileField.parser \in {"json", "byteArray"}
          THEN /\ fileParsing' = fileParsing \cup {file}
               /\ UNCHANGED <<fileCalls, fileList, fileError>>
          ELSE Accept(file, file) /\ UNCHANGED fileParsing
       /\ UNCHANGED <<fileField, FileOthers>>

\* beforeUpload: the user drops or chooses a file
BeforeUpload == \E file \in FileSamples : handleUpload(file)

\* the FileReader is done: handleUpload goes on after its await
ParseSettles(file) ==
    LET result == ParseResult(fileField.parser, file)
    IN /\ file \in fileParsing
       /\ fileParsing' = fileParsing \ {file}
       /\ IF result.ok THEN Accept(result.value, file)
          ELSE Refuse(result.value)
       /\ UNCHANGED <<fileField, fileUploads, FileOthers>>

ParsesSettle == \E file \in FileSamples : ParseSettles(file)

\* the delete button next to the displayed file
RemoveFile ==
    /\ fileList # NoFile
    /\ fileList' = NoFile
    /\ UNCHANGED <<fileField, fileError, fileCalls, fileParsing, fileUploads,
                   FileOthers>>

FileNext ==
    \/ BeforeUpload
    \/ ParsesSettle
    \/ RemoveFile

\* ---- C21 ----
\* the name ends in a dot followed by letters or digits only
HasExtension(file) ==
    \E k \in 1..(Len(file.name) - 1) :
        /\ file.name[k] = "."
        /\ \A i \in (k + 1)..Len(file.name) : IsAlnum(file.name[i])

ExtensionOf(file) ==
    LET k == CHOOSE k \in 1..(Len(file.name) - 1) :
                 /\ file.name[k] = "."
                 /\ \A i \in (k + 1)..Len(file.name) : IsAlnum(file.name[i])
    IN toLowerCase(SubSeq(file.name, k, Len(file.name)))

\* the first check the file fails, in the order: present, has an extension,
\* extension in accept, MIME type registered for the extension, size
FirstFailure(file) ==
    IF file = NoFile THEN "noFile"
    ELSE IF ~HasExtension(file) THEN "noExtension"
    ELSE IF \A i \in 1..Len(fileField.accept) :
                fileField.accept[i] # ExtensionOf(file)
    THEN "invalidExtension"
    ELSE IF Trim(toLowerCase(file.type)) # mimeTypes(ExtensionOf(file))
    THEN "invalidType"
    ELSE IF /\ fileField.kind = "parser"
            /\ fileField.sizeLimit # 0
            /\ file.size > fileField.sizeLimit
    THEN "size"
    ELSE "none"

FailureMessage(failure) ==
    IF failure = "size" THEN <<"File size exceeds limit.">>
    ELSE CheckMessage(fileField.kind, failure)

\* the field parses the file and the reader or the parser fails
ParsingFails(file) ==
    \/ fileField.parser # "undefined" /\ file.content = "unreadable"
    \/ fileField.parser = "json" /\ file.content # "json"

NothingAccepted ==
    /\ fileCalls' = fileCalls
    /\ fileList' = fileList

\* C21: the file fields call onChange (with the file or its parsed content)
\* only for a file that passed every check, tested in the order: present,
\* has an extension, extension in accept, MIME type registered for the
\* extension, and (parser field) size within sizeLimit; when a check or the
\* parsing fails, onChange is not called, the displayed file is unchanged
\* and the error state is that failure's message.
C21_OnChangeOnlyForCheckedFiles ==
    /\ [][\A file \in FileSamples :
            handleUpload(file) =>
                IF FirstFailure(file) # "none"
                THEN /\ NothingAccepted
                     /\ fileError' = FailureMessage(FirstFailure(file))
                ELSE IF fileField.parser = "undefined"
                THEN fileCalls' = Append(fileCalls, file) /\ fileList' = file
                ELSE NothingAccepted /\ fileError' = fileError]_vars
    /\ [][\A file \in FileSamples :
            ParseSettles(file) =>
                IF ParsingFails(file)
                THEN /\ NothingAccepted
                     /\ fileError' \in {NotValidFileMessage, ReadFileErrorMessage}
                ELSE /\ fileCalls' = Append(fileCalls,
                                            Parsed(fileField.parser, file))
                     /\ fileList' = file]_vars
    /\ [](\A i \in 1..Len(fileCalls) :
            LET file == IF fileField.parser = "undefined" THEN fileCalls[i]
                        ELSE fileCalls[i].file
            IN FirstFailure(file) = "none" /\ ~ParsingFails(file))

\* the parser field showed a parsed file, then refused one that is too large:
\* the first file is still displayed, onChange was called once
C21_Witness ==
    /\ fileField.kind = "parser"
    /\ fileField.parser = "json"
    /\ Len(fileCalls) = 1
    /\ fileList = File(<<"A",".","J","S","O","N">>, <<"A","p","p","l","i","c","a","t","i","o","n","/","J","S","O","N"," ">>, 1, "json")
    /\ fileError = <<"File size exceeds limit.">>
    /\ fileUploads = 2

(***************************************************************************)
(* The add / edit wizard of ebill types: AddEbillTypeModal and             *)
(* EditEbillTypeModal with their three steps (ebill-type-management.tsx)   *)
(***************************************************************************)
Wizards == {"addEbillTypeModal", "editEbillTypeModal"}

\* the contents of the three steps
steps == <<"details", "headers", "commissions">>

\* Steps shows steps[current].content, when there is one
HasContent(step) == step \in 0..(Len(steps) - 1)

\* the fields the form of each step renders (of the details and headers
\* steps, the first ones)
DetailsFields == {"code", "name"}

HeadersFields == {"mainTopic"}

CommissionsFields == {"issueCommissionTopic", "otherCommissionTopic",
                      "transferCommissionTopic"}

StepFields(step) ==
    IF step = 0 THEN DetailsFields
    ELSE IF step = 1 THEN HeadersFields
    ELSE IF step = 2 THEN CommissionsFields
    ELSE {}

WizardFields == DetailsFields \cup HeadersFields \cup CommissionsFields

\* what the user types into a field
WizardValues == {Str(<<"1">>), Str(<<"2">>)}

\* disabled: true of the code field of EditEbillTypeDetails
IsDisabledField(wiz, name) == wiz = "editEbillTypeModal" /\ name = "code"

\* requiredFiled() in the rules of every field but the disabled one
IsRequiredField(wiz, name) == ~IsDisabledField(wiz, name)

\* the keys of an object; undefined spreads to nothing
PropsOf(object) == IF object = Undefined THEN {} ELSE DOMAIN object.v

\* { ...a, ...b }
Spread(a, b) ==
    Obj([f \in PropsOf(a) \cup PropsOf(b) |->
            IF f \in PropsOf(b) THEN b.v[f] ELSE a.v[f]])

\* the store of a form that mounts with initialValues
MountStore(initial) ==
    [f \in WizardFields |->
        IF f \in PropsOf(initial) THEN initial.v[f] ELSE Undefined]

\* onFinish hands the values of the fields the form renders
getFieldsValue(store, step) == Obj([f \in StepFields(step) |-> store[f]])

\* initialValues={ebillTypeDetails} of every step's form
initialValues == ebillTypeDetails

\* const next = () => setCurrent(current + 1);
next(cur) == cur + 1

\* const prev = () => setCurrent(current - 1);
prev(cur) == cur - 1

\* a reset that goes back on every step
onResetAlwaysPrev(step) == "prev"

\* onReset of the step's form: the first step hides the modal, the other two
\* go back
onReset(step) == IF step = 0 THEN "hideAppModal" ELSE "prev"

\* the details of the edited type as the server holds them
FetchedDetails == Obj([f \in WizardFields |-> Str(<<"2">>)])

\* data of useGet(GET_EBILL_TYPE_DETAILS(code))
DetailsResponses ==
    { [t |-> "response", isSuccess |-> TRUE, resultData |-> FetchedDetails],
      [t |-> "response", isSuccess |-> FALSE, resultData |-> Null] }

\* the add modal returns Steps at once; the edit modal when
\* data?.isSuccess && data?.resultData
StepsShown ==
    /\ wizVisible
    /\ HasContent(current)
    /\ \/ wizard = "addEbillTypeModal"
       \/ /\ detailsData # Undefined
          /\ detailsData.isSuccess
          /\ Truthy(detailsData.resultData)

WizardIdle ==
    /\ wizard = "addEbillTypeModal"
    /\ wizVisible = FALSE
    /\ current = 0
    /\ ebillTypeDetails = Undefined
    /\ detailsData = Undefined
    /\ stepStore = MountStore(Undefined)
    /\ wizRequest = NoRequest

\* one of the wizards was opened: useState(0), useState(undefined)
WizardInit ==
    /\ wizard \in Wizards
    /\ wizVisible = TRUE
    /\ current = 0
    /\ ebillTypeDetails = Undefined
    /\ detailsData = Undefined
    /\ stepStore = MountStore(Undefined)
    /\ wizRequest = NoRequest

WizardOthers == <<cardVars, depVars, groupVars, builderVars, getVars,
                  mutVars, ibanVars, modalVars, toggleVars, layoutVars,
                  afVars, calcVars, sortVars, fileVars>>

\* the details of the edited type arrive: the modal leaves the spinner and,
\* for a successful answer, mounts the first step
DetailsFetched(response) ==
    /\ wizard = "editEbillTypeModal"
    /\ wizVisible
    /\ detailsData = Undefined
    /\ detailsData' = response
    /\ stepStore' = MountStore(initialValues)
    /\ UNCHANGED <<wizard, wizVisible, current, ebillTypeDetails, wizRequest,
                   WizardOthers>>

DetailsFetch == \E response \in DetailsResponses : DetailsFetched(response)

\* the user types into a field of the shown step
WizardInput(name, value) ==
    /\ StepsShown
    /\ name \in StepFields(current)
    /\ ~IsDisabledField(wizard, name)
    /\ stepStore[name] # value
    /\ stepStore' = [stepStore EXCEPT ![name] = value]
    /\ UNCHANGED <<wizard, wizVisible, current, ebillTypeDetails, detailsData,
                   wizRequest, WizardOthers>>

WizardInputs ==
    \E name \in WizardFields, value \in WizardValues : WizardInput(name, value)

\* the rules of the shown step's fields pass
CanSubmit ==
    \A name \in StepFields(current) :
        IsRequiredField(wizard, name) => stepStore[name] # Undefined

\* handleSubmit of Add/EditEbillTypeDetails:
\* setEbillTypeDetails(fields); next();
SubmitDetails ==
    /\ StepsShown
    /\ steps[current + 1] = "details"
    /\ CanSubmit
    /\ LET fields == getFieldsValue(stepStore, current)
       IN /\ ebillTypeDetails' = fields
          /\ current' = next(current)
          /\ stepStore' = MountStore(fields)
    /\ UNCHANGED <<wizard, wizVisible, detailsData, wizRequest, WizardOthers>>

\* handleSubmit of Add/EditHeaders:
\* setEbillTypeDetails((prevDetails) => ({ ...prevDetails, ...fields })); next();
SubmitHeaders ==
    /\ StepsShown
    /\ steps[current + 1] = "headers"
    /\ CanSubmit
    /\ LET fields == getFieldsValue(stepStore, current)
       IN /\ ebillTypeDetails' = Spread(ebillTypeDetails, fields)
          /\ current' = next(current)
          /\ stepStore' = MountStore(Spread(ebillTypeDetails, fields))
    /\ UNCHANGED <<wizard, wizVisible, detailsData, wizRequest, WizardOthers>>

\* handleSubmit of Add/EditCommissions: mutate(fields, { onSuccess, onError })
SubmitCommissions ==
    /\ StepsShown
    /\ steps[current + 1] = "commissions"
    /\ CanSubmit
    /\ wizRequest' = hookMutate(getFieldsValue(stepStore, current),
                                ModalCallbacks)
    /\ UNCHANGED <<wizard, wizVisible, current, ebillTypeDetails, detailsData,
                   stepStore, WizardOthers>>

\* the reset button of the shown step
StepReset ==
    /\ StepsShown
    /\ IF onReset(current) = "hideAppModal"
       THEN /\ wizVisible' = FALSE
            /\ UNCHANGED <<current, stepStore>>
       ELSE /\ current' = prev(current)
            /\ stepStore' = MountStore(initialValues)
            /\ UNCHANGED wizVisible
    /\ UNCHANGED <<wizard, ebillTypeDetails, detailsData, wizRequest,
                   WizardOthers>>

WizardNext ==
    \/ DetailsFetch
    \/ WizardInputs
    \/ SubmitDetails
    \/ SubmitHeaders
    \/ SubmitCommissions
    \/ StepReset

\* ---- C23 ----
\* the detail and header values the two earlier steps saved
SavedByEarlierSteps(object) ==
    \A name \in PropsOf(ebillTypeDetails) \ CommissionsFields :
        /\ name \in PropsOf(object)
        /\ object.v[name] = ebillTypeDetails.v[name]

\* the three commission topics of the last step's form
CarriesCommissions(object) ==
    \A name \in CommissionsFields :
        /\ name \in PropsOf(object)
        /\ object.v[name] = stepStore[name]

\* C23: on the last step (commissions) of the add / edit wizard, the payload
\* sent to the POST / PATCH request contains the detail values and the header
\* values that the two earlier steps saved into ebillTypeDetails, together
\* with the three commission topics.
C23_PayloadCarriesEarlierSteps ==
    [][SubmitCommissions =>
          /\ SavedByEarlierSteps(wizRequest'.data)
          /\ CarriesCommissions(wizRequest'.data)]_vars

\* what is sent is the three commission topics and nothing else
C23_PayloadIsCommissionsOnly ==
    [][SubmitCommissions =>
          /\ PropsOf(wizRequest'.data) = CommissionsFields
          /\ CarriesCommissions(wizRequest'.data)]_vars

\* the add wizard sent a request after details and headers were saved
C23_Witness ==
    /\ wizard = "addEbillTypeModal"
    /\ current = 2
    /\ PropsOf(ebillTypeDetails) = DetailsFields \cup HeadersFields
    /\ wizRequest # NoRequest

\* ---- C24 ----
\* C24: when the edit wizard is shown (the details were fetched with
\* isSuccess = true), the first step's initial values are the fetched details
\* (data.resultData), so the disabled code field shows that type's code.
C24_EditStartsFromFetchedDetails ==
    [][\A response \in DetailsResponses :
          (DetailsFetched(response) /\ StepsShown') =>
              /\ initialValues' = response.resultData
              /\ stepStore'["code"] = response.resultData.v["code"]]_vars

\* the first step of the edit wizard starts without initial values
C24_EditStartsEmpty ==
    [][\A response \in DetailsResponses :
          (DetailsFetched(response) /\ StepsShown') =>
              /\ initialValues' = Undefined
              /\ stepStore' = MountStore(Undefined)]_vars

\* the edit wizard is shown on its first step with the fetched details at
\* hand and an empty code field
C24_Witness ==
    /\ wizard = "editEbillTypeModal"
    /\ StepsShown
    /\ current = 0
    /\ detailsData.resultData = FetchedDetails
    /\ stepStore["code"] = Undefined

\* ---- C26 ----
\* C26: the wizard's step index current is always 0, 1 or 2: next is
\* reachable only from steps 0 and 1, prev only from steps 1 and 2, and the
\* reset on step 0 closes the modal.
C26_StepIndexStaysInRange ==
    /\ [](current \in {0, 1, 2})
    /\ [][current' = next(current) => current \in {0, 1}]_vars
    /\ [][current' = prev(current) => current \in {1, 2}]_vars
    /\ [][(StepReset /\ current = 0) =>
             (~wizVisible' /\ current' = current)]_vars

\* the edit wizard was closed from its first step after a walk to the last
\* step and back
C26_Witness ==
    /\ wizard = "editEbillTypeModal"
    /\ ~wizVisible
    /\ current = 0
    /\ PropsOf(ebillTypeDetails) = DetailsFields \cup HeadersFields

(***************************************************************************)
(* Specifications: one per part of the program; the other parts are idle   *)
(***************************************************************************)
InitCard ==
    CardInit /\ DepIdle /\ GroupIdle /\ BuilderIdle /\ GetIdle /\ MutIdle
    /\ IbanIdle /\ ModalIdle /\ ToggleIdle /\ LayoutIdle /\ AutoFillIdle
    /\ CalcIdle /\ SortIdle /\ FileIdle /\ WizardIdle

SpecCard == InitCard /\ [][CardNext]_vars

InitDeps ==
    DepInit /\ CardIdle /\ GroupIdle /\ BuilderIdle /\ GetIdle /\ MutIdle
    /\ IbanIdle /\ ModalIdle /\ ToggleIdle /\ LayoutIdle /\ AutoFillIdle
    /\ CalcIdle /\ SortIdle /\ FileIdle /\ WizardIdle

SpecDeps == InitDeps /\ [][DepNext]_vars

InitGroup ==
    GroupInit /\ CardIdle /\ DepIdle /\ BuilderIdle /\ GetIdle /\ MutIdle
    /\ IbanIdle /\ ModalIdle /\ ToggleIdle /\ LayoutIdle /\ AutoFillIdle
    /\ CalcIdle /\ SortIdle /\ FileIdle /\ WizardIdle

SpecGroup == InitGroup /\ [][GroupNext]_vars

InitBuilderMount ==
    BuilderMountInit /\ CardIdle /\ DepIdle /\ GroupIdle /\ GetIdle
    /\ MutIdle /\ IbanIdle /\ ModalIdle /\ ToggleIdle /\ LayoutIdle
    /\ AutoFillIdle /\ CalcIdle /\ SortIdle /\ FileIdle /\ WizardIdle

SpecBuilderMount == InitBuilderMount /\ [][BuilderMountNext]_vars

InitBuilderSubmit ==
    BuilderSubmitInit /\ CardIdle /\ DepIdle /\ GroupIdle /\ GetIdle
    /\ MutIdle /\ IbanIdle /\ ModalIdle /\ ToggleIdle /\ LayoutIdle
    /\ AutoFillIdle /\ CalcIdle /\ SortIdle /\ FileIdle /\ WizardIdle

SpecBuilderSubmit == InitBuilderSubmit /\ [][BuilderSubmitNext]_vars

InitGet ==
    GetInit /\ CardIdle /\ DepIdle /\ GroupIdle /\ BuilderIdle /\ MutIdle
    /\ IbanIdle /\ ModalIdle /\ ToggleIdle /\ LayoutIdle /\ AutoFillIdle
    /\ CalcIdle /\ SortIdle /\ FileIdle /\ WizardIdle

SpecGet == InitGet /\ [][GetNext]_vars

InitMut ==
    MutInit /\ CardIdle /\ DepIdle /\ GroupIdle /\ BuilderIdle /\ GetIdle
    /\ IbanIdle /\ ModalIdle /\ ToggleIdle /\ LayoutIdle /\ AutoFillIdle
    /\ CalcIdle /\ SortIdle /\ FileIdle /\ WizardIdle

SpecMut == InitMut /\ [][MutNext]_vars

InitIban ==
    IbanInit /\ CardIdle /\ DepIdle /\ GroupIdle /\ BuilderIdle /\ GetIdle
    /\ MutIdle /\ ModalIdle /\ ToggleIdle /\ LayoutIdle /\ AutoFillIdle
    /\ CalcIdle /\ SortIdle /\ FileIdle /\ WizardIdle

SpecIban == InitIban /\ [][IbanNext]_vars

InitModal ==
    ModalInit /\ CardIdle /\ DepIdle /\ GroupIdle /\ BuilderIdle /\ GetIdle
    /\ MutIdle /\ IbanIdle /\ ToggleIdle /\ LayoutIdle /\ AutoFillIdle
    /\ CalcIdle /\ SortIdle /\ FileIdle /\ WizardIdle

SpecModal == InitModal /\ [][ModalNext]_vars

InitToggle ==
    ToggleInit /\ CardIdle /\ DepIdle /\ GroupIdle /\ BuilderIdle /\ GetIdle
    /\ MutIdle /\ IbanIdle /\ ModalIdle /\ LayoutIdle /\ AutoFillIdle
    /\ CalcIdle /\ SortIdle /\ FileIdle /\ WizardIdle

SpecToggle == InitToggle /\ [][ToggleNext]_vars

InitLayout ==
    LayoutInit /\ CardIdle /\ DepIdle /\ GroupIdle /\ BuilderIdle /\ GetIdle
    /\ MutIdle /\ IbanIdle /\ ModalIdle /\ ToggleIdle /\ AutoFillIdle
    /\ CalcIdle /\ SortIdle /\ FileIdle /\ WizardIdle

SpecLayout == InitLayout /\ [][LayoutNext]_vars

InitAutoFill ==
    AutoFillInit /\ CardIdle /\ DepIdle /\ GroupIdle /\ BuilderIdle
    /\ GetIdle /\ MutIdle /\ IbanIdle /\ ModalIdle /\ ToggleIdle
    /\ LayoutIdle /\ CalcIdle /\ SortIdle /\ FileIdle /\ WizardIdle

SpecAutoFill == InitAutoFill /\ [][AutoFillNext]_vars /\ WF_vars(AutoFillRender)

InitCalc ==
    CalcInit /\ CardIdle /\ DepIdle /\ GroupIdle /\ BuilderIdle /\ GetIdle
    /\ MutIdle /\ IbanIdle /\ ModalIdle /\ ToggleIdle /\ LayoutIdle
    /\ AutoFillIdle /\ SortIdle /\ FileIdle /\ WizardIdle

SpecCalc == InitCalc /\ [][CalcNext]_vars

InitSort ==
    SortInit /\ CardIdle /\ DepIdle /\ GroupIdle /\ BuilderIdle /\ GetIdle
    /\ MutIdle /\ IbanIdle /\ ModalIdle /\ ToggleIdle /\ LayoutIdle
    /\ AutoFillIdle /\ CalcIdle /\ FileIdle /\ WizardIdle

SpecSort == InitSort /\ [][SortNext]_vars

InitFile ==
    FileInit /\ CardIdle /\ DepIdle /\ GroupIdle /\ BuilderIdle /\ GetIdle
    /\ MutIdle /\ IbanIdle /\ ModalIdle /\ ToggleIdle /\ LayoutIdle
    /\ AutoFillIdle /\ CalcIdle /\ SortIdle /\ WizardIdle

SpecFile == InitFile /\ [][FileNext]_vars

InitWizard ==
    WizardInit /\ CardIdle /\ DepIdle /\ GroupIdle /\ BuilderIdle /\ GetIdle
    /\ MutIdle /\ IbanIdle /\ ModalIdle /\ ToggleIdle /\ LayoutIdle
    /\ AutoFillIdle /\ CalcIdle /\ SortIdle /\ FileIdle

SpecWizard == InitWizard /\ [][WizardNext]_vars

====
